---- MODULE Spec2Model ----
(***************************************************************************)
(* Position lifecycle of the AMM trading suite: the Uniswap V3 (direct    *)
(* call) and Uniswap V4 (batched action) LiquidityManager operations,     *)
(* their contract wrappers, the fee policy and the tick/percentage        *)
(* arithmetic they rely on.                                                *)
(***************************************************************************)
EXTENDS Integers, Sequences, FiniteSets, TLC

(***************************************************************************)
(* Unbounded naturals.  Position liquidity is a uint128 on the ledger and  *)
(* Python integers are unbounded, so liquidity is kept as a little-endian  *)
(* sequence of limbs in base Base with no leading zero limb (<<>> is 0).   *)
(***************************************************************************)
LimbBits == 12

Base == 2^LimbBits

BZero == <<>>

\* the limbs of s up to its most significant nonzero one
BNorm(s) ==
    LET Upto(nz) ==
            IF nz = {} THEN <<>>
            ELSE SubSeq(s, 1, CHOOSE i \in nz : \A j \in nz : j <= i)
    IN  IF s = <<>> THEN <<>>
        ELSE IF s[Len(s)] # 0 THEN s
        ELSE Upto({i \in 1..Len(s) : s[i] # 0})

RECURSIVE BFromInt(_)
BFromInt(n) == IF n = 0 THEN <<>> ELSE <<n % Base>> \o BFromInt(n \div Base)

\* limb i of s, 0 beyond its length
BLimb(s, i) == IF i <= Len(s) THEN s[i] ELSE 0

(***************************************************************************)
(* The operations below walk the limbs lo..hi of their operands by halves, *)
(* the half that produces the carry (borrow, remainder) first, and return  *)
(* the limbs of the result with the carry that leaves the range.           *)
(***************************************************************************)
RECURSIVE BAddRange(_, _, _, _, _)
BAddRange(a, b, lo, hi, carry) ==
    LET Leaf(t) == [limbs |-> <<t % Base>>, carry |-> t \div Base]
        Join(bot, top) == [limbs |-> bot.limbs \o top.limbs, carry |-> top.carry]
        Upper(bot, mid) == Join(bot, BAddRange(a, b, mid, hi, bot.carry))
        Split(mid) == Upper(BAddRange(a, b, lo, mid - 1, carry), mid)
    IN  IF lo > hi \/ carry > 1 THEN [limbs |-> <<>>, carry |-> carry]
        ELSE IF lo = hi THEN Leaf(BLimb(a, lo) + BLimb(b, lo) + carry)
        ELSE Split((lo + hi + 1) \div 2)

\* a + b
BAdd(a, b) ==
    LET Result(r) == BNorm(r.limbs \o <<r.carry>>)
    IN  IF a = <<>> THEN b
        ELSE IF b = <<>> THEN a
        ELSE Result(BAddRange(a, b, 1,
                              IF Len(a) > Len(b) THEN Len(a) ELSE Len(b), 0))

RECURSIVE BMulCarry(_, _, _, _, _)
BMulCarry(s, k, lo, hi, carry) ==
    LET Leaf(t) == [limbs |-> <<t % Base>>, carry |-> t \div Base]
        Join(bot, top) == [limbs |-> bot.limbs \o top.limbs, carry |-> top.carry]
        Upper(bot, mid) == Join(bot, BMulCarry(s, k, mid, hi, bot.carry))
        Split(mid) == Upper(BMulCarry(s, k, lo, mid - 1, carry), mid)
    IN  IF lo > hi \/ carry > k THEN [limbs |-> <<>>, carry |-> carry]
        ELSE IF lo = hi THEN Leaf(s[lo] * k + carry)
        ELSE Split((lo + hi + 1) \div 2)

\* s * k for a small natural k (k < 2^18)
BMulSmall(s, k) ==
    LET Result(r) == BNorm(r.limbs \o BFromInt(r.carry))
    IN  IF s = <<>> \/ k = 0 THEN <<>>
        ELSE Result(BMulCarry(s, k, 1, Len(s), 0))

\* quotient digits and remainder of (rem followed by limbs hi down to lo
\* of s) by a small positive d (d < 2^18)
RECURSIVE BDivRem(_, _, _, _, _)
BDivRem(s, d, lo, hi, rem) ==
    LET Lower(top, bot) == [quot |-> bot.quot \o top.quot, rem |-> bot.rem]
        Upper(top, mid) == Lower(top, BDivRem(s, d, lo, mid - 1, top.rem))
        Split(mid) == Upper(BDivRem(s, d, mid, hi, rem), mid)
    IN  IF lo > hi \/ rem >= d THEN [quot |-> <<>>, rem |-> rem]
        ELSE IF lo = hi
        THEN [quot |-> <<(rem * Base + s[lo]) \div d>>,
              rem |-> (rem * Base + s[lo]) % d]
        ELSE Split((lo + hi + 1) \div 2)

BDivSmall(s, d) ==
    LET Result(r) == [quot |-> BNorm(r.quot), rem |-> r.rem]
    IN  IF s = <<>> THEN [quot |-> <<>>, rem |-> 0]
        ELSE Result(BDivRem(s, d, 1, Len(s), 0))

\* sign of a - b over limbs lo..hi of two numbers of the same length
RECURSIVE BCmpFrom(_, _, _, _)
BCmpFrom(a, b, lo, hi) ==
    LET Lower(top, mid) ==
            IF top # 0 THEN top ELSE BCmpFrom(a, b, lo, mid - 1)
        Split(mid) == Lower(BCmpFrom(a, b, mid, hi), mid)
    IN  IF lo > hi THEN 0
        ELSE IF lo = hi
        THEN IF a[lo] < b[lo] THEN -1 ELSE IF a[lo] > b[lo] THEN 1 ELSE 0
        ELSE Split((lo + hi + 1) \div 2)

\* -1, 0, 1 as a < b, a = b, a > b
BCmp(a, b) ==
    IF Len(a) < Len(b) THEN -1
    ELSE IF Len(a) > Len(b) THEN 1
    ELSE BCmpFrom(a, b, 1, Len(a))

BLeq(a, b) == BCmp(a, b) <= 0

RECURSIVE BSubBorrow(_, _, _, _, _)
BSubBorrow(a, b, lo, hi, borrow) ==
    LET Leaf(t) ==
            [limbs |-> <<IF t < 0 THEN t + Base ELSE t>>,
             carry |-> IF t < 0 THEN 1 ELSE 0]
        Join(bot, top) == [limbs |-> bot.limbs \o top.limbs, carry |-> top.carry]
        Upper(bot, mid) == Join(bot, BSubBorrow(a, b, mid, hi, bot.carry))
        Split(mid) == Upper(BSubBorrow(a, b, lo, mid - 1, borrow), mid)
    IN  IF lo > hi \/ borrow > 1 THEN [limbs |-> <<>>, carry |-> borrow]
        ELSE IF lo = hi THEN Leaf(a[lo] - BLimb(b, lo) - borrow)
        ELSE Split((lo + hi + 1) \div 2)

\* a - b for b <= a
BSub(a, b) ==
    IF b = <<>> THEN a
    ELSE BNorm(BSubBorrow(a, b, 1, Len(a), 0).limbs)

RECURSIVE IntBitLen(_)
IntBitLen(n) == IF n = 0 THEN 0 ELSE 1 + IntBitLen(n \div 2)

BBitLen(s) ==
    IF s = <<>> THEN 0 ELSE LimbBits * (Len(s) - 1) + IntBitLen(s[Len(s)])

\* s * 2^k: whole limbs are shifted in, the rest is a small multiplication
BShl(s, k) ==
    IF s = <<>> THEN <<>>
    ELSE [i \in 1..(k \div LimbBits) |-> 0] \o BMulSmall(s, 2^(k % LimbBits))

\* s \div 2^k
BShr(s, k) ==
    IF k \div LimbBits >= Len(s) THEN <<>>
    ELSE BDivSmall(SubSeq(s, (k \div LimbBits) + 1, Len(s)), 2^(k % LimbBits)).quot

BIsOdd(s) == s # <<>> /\ s[1] % 2 = 1

(***************************************************************************)
(* IEEE-754 binary64 arithmetic, as CPython's float performs it: every     *)
(* result is the exact value rounded to MantissaBits significant bits,     *)
(* ties to even.  A float is [m, e], the non-negative value m * 2^e.       *)
(***************************************************************************)
MantissaBits == 53

\* a * (limbs lo..hi of b), each limb's product at its place
RECURSIVE BMulRange(_, _, _, _)
BMulRange(a, b, lo, hi) ==
    IF lo = hi THEN [j \in 1..(lo - 1) |-> 0] \o BMulSmall(a, b[lo])
    ELSE BAdd(BMulRange(a, b, lo, (lo + hi) \div 2),
              BMulRange(a, b, (lo + hi) \div 2 + 1, hi))

\* a * b
BMul(a, b) ==
    IF a = <<>> \/ b = <<>> THEN <<>> ELSE BNorm(BMulRange(a, b, 1, Len(b)))

\* m or m + 1: round to nearest, ties to even; c is the sign of
\* (discarded part - half a unit)
RoundHalfEven(m, c) ==
    IF c > 0 \/ (c = 0 /\ BIsOdd(m)) THEN BAdd(m, <<1>>) ELSE m

\* acc.quot divided by ds[i], ds[i+1], ...; sticky records a lost remainder
RECURSIVE BDivChain(_, _, _)
BDivChain(acc, ds, i) ==
    IF i > Len(ds) THEN acc
    ELSE LET r == BDivSmall(acc.quot, ds[i])
         IN  IF r.rem = 0
             THEN BDivChain([quot |-> r.quot, sticky |-> acc.sticky], ds, i + 1)
             ELSE BDivChain([quot |-> r.quot, sticky |-> TRUE], ds, i + 1)

RECURSIVE SumBitLen(_, _)
SumBitLen(ds, i) ==
    IF i > Len(ds) THEN 0 ELSE IntBitLen(ds[i]) + SumBitLen(ds, i + 1)

\* q rounded to its leading bits m = q \div 2^sh (sh > 0): the discarded
\* part is compared with half a unit, a nonzero fraction breaking the tie
RoundAt(q, sticky, e0, m, sh) ==
    LET Tie(h) == IF h # 0 THEN h ELSE IF sticky THEN 1 ELSE 0
    IN  [m |-> RoundHalfEven(m, Tie(BCmp(BSub(q, BShl(m, sh)),
                                         BShl(<<1>>, sh - 1)))),
         e |-> e0 + sh]

\* the float nearest to (q + a fraction) * 2^e0, where the fraction is
\* nonzero exactly when sticky
RoundSticky(q, sticky, e0) ==
    IF BBitLen(q) <= MantissaBits THEN [m |-> q, e |-> e0]
    ELSE RoundAt(q, sticky, e0, BShr(q, BBitLen(q) - MantissaBits),
                 BBitLen(q) - MantissaBits)

\* the float nearest to n / (ds[1] * ... * ds[Len(ds)]) for a natural n and
\* small positive divisors: the quotient is taken with two guard bits
RoundRatio(n, ds) ==
    IF n = <<>> THEN [m |-> <<>>, e |-> 0]
    ELSE LET g  == MantissaBits + 2 + SumBitLen(ds, 1) - BBitLen(n)
             f  == IF g > 0 THEN g ELSE 0
             qs == BDivChain([quot |-> BShl(n, f), sticky |-> FALSE], ds, 1)
         IN  RoundSticky(qs.quot, qs.sticky, 0 - f)

\* float(n) for a natural n
FloatOfInt(n) == RoundSticky(n, FALSE, 0)

\* x * y
FloatMul(x, y) ==
    RoundSticky(BMul(x.m, y.m), FALSE, x.e + y.e)

\* x / d for a small positive integer d (exactly representable)
FloatDivInt(x, d) ==
    LET r == RoundRatio(x.m, <<d>>)
    IN  [m |-> r.m, e |-> r.e + x.e]

\* int(x): the fraction is dropped
IntOfFloat(x) == IF x.e >= 0 THEN BShl(x.m, x.e) ELSE BShr(x.m, 0 - x.e)

Float0 == [m |-> <<>>, e |-> 0]

\* the largest digit d below Base with b * d <= r, found bit by bit
RECURSIVE BDivDigit(_, _, _, _)
BDivDigit(r, b, k, d) ==
    IF k < 0 THEN d
    ELSE IF BLeq(BMulSmall(b, d + 2^k), r)
    THEN BDivDigit(r, b, k - 1, d + 2^k)
    ELSE BDivDigit(r, b, k - 1, d)

\* long division by b (b # 0) of the number made of r (r < b) followed by
\* the limbs hi down to lo of a: one quotient digit per limb. The limbs
\* are split in halves, the upper half first; nothing is divided when
\* there is no limb or r is not a remainder of b.
RECURSIVE BDivRange(_, _, _, _, _)
BDivRange(a, b, lo, hi, r) ==
    LET Digit(r2, d) ==
            [quot |-> <<d>>, rem |-> BSub(r2, BMulSmall(b, d))]
        Shifted(r2) == Digit(r2, BDivDigit(r2, b, LimbBits - 1, 0))
        Lower(top, bot) == [quot |-> bot.quot \o top.quot, rem |-> bot.rem]
        Upper(top, mid) == Lower(top, BDivRange(a, b, lo, mid - 1, top.rem))
        Split(mid) == Upper(BDivRange(a, b, mid, hi, r), mid)
    IN  IF lo > hi \/ BCmp(r, b) >= 0 THEN [quot |-> <<>>, rem |-> r]
        ELSE IF lo = hi THEN Shifted(BNorm(<<a[lo]>> \o r))
        ELSE Split((lo + hi + 1) \div 2)

\* quotient and remainder of a by b (b # 0)
BDivBig(a, b) ==
    LET Result(d) == [quot |-> BNorm(d.quot), rem |-> d.rem]
    IN  IF a = <<>> THEN [quot |-> <<>>, rem |-> <<>>]
        ELSE Result(BDivRange(a, b, 1, Len(a), <<>>))

\* sign of x - y, exactly
FloatCmp(x, y) ==
    LET e == IF x.e < y.e THEN x.e ELSE y.e
    IN  BCmp(BShl(x.m, x.e - e), BShl(y.m, y.e - e))

\* x - y for x >= y
FloatSub(x, y) ==
    LET e == IF x.e < y.e THEN x.e ELSE y.e
    IN  RoundSticky(BSub(BShl(x.m, x.e - e), BShl(y.m, y.e - e)), FALSE, e)

\* x / y for y # 0: the quotient is taken with guard bits
FloatDiv(x, y) ==
    LET Guard == IF MantissaBits + 2 + BBitLen(y.m) > BBitLen(x.m)
                 THEN MantissaBits + 2 + BBitLen(y.m) - BBitLen(x.m)
                 ELSE 0
        Quot(d) == RoundSticky(d.quot, d.rem # <<>>, x.e - y.e - Guard)
    IN  IF x.m = <<>> THEN Float0
        ELSE Quot(BDivBig(BShl(x.m, Guard), y.m))

\* vx // wx for wx # 0 (float_floor_div): mod = fmod(vx, wx),
\* div = (vx - mod) / wx, floor(div), plus one when div - floor(div) > 0.5
FloatFloorDiv(vx, wx) ==
    LET Half == [m |-> <<1>>, e |-> -1]
        e == IF vx.e < wx.e THEN vx.e ELSE wx.e
        Adjust(div, floordiv) ==
            IF FloatCmp(FloatSub(div, floordiv), Half) > 0
            THEN RoundSticky(BAdd(floordiv.m, <<1>>), FALSE, 0)
            ELSE floordiv
        Floored(div) ==
            IF div.m = <<>> THEN Float0
            ELSE Adjust(div, [m |-> IntOfFloat(div), e |-> 0])
        Mod(d) == RoundSticky(d.rem, FALSE, e)
    IN  Floored(FloatDiv(FloatSub(vx, Mod(BDivBig(BShl(vx.m, vx.e - e),
                                                  BShl(wx.m, wx.e - e)))),
                         wx))

(***************************************************************************)
(* A Python number that is an int or a float: the value m * 2^e, exact     *)
(* for an int.  An operation on two ints is exact; any other converts the  *)
(* int operand to float first.  Comparisons are exact in both cases.       *)
(***************************************************************************)
PyInt(n) == [err |-> "none", int |-> TRUE, m |-> n, e |-> 0]

PyFloat(x) == [err |-> "none", int |-> FALSE, m |-> x.m, e |-> x.e]

AsFloat(v) == IF v.int THEN FloatOfInt(v.m) ELSE [m |-> v.m, e |-> v.e]

PyCmp(v, w) == FloatCmp(v, w)

PyMul(v, w) ==
    IF v.int /\ w.int THEN PyInt(BMul(v.m, w.m))
    ELSE PyFloat(FloatMul(AsFloat(v), AsFloat(w)))

\* v - w for v >= w
PySub(v, w) ==
    IF v.int /\ w.int THEN PyInt(BSub(v.m, w.m))
    ELSE PyFloat(FloatSub(AsFloat(v), AsFloat(w)))

\* v // w
PyFloorDiv(v, w) ==
    IF w.m = <<>> THEN [PyInt(<<>>) EXCEPT !.err = "ZeroDivisionError"]
    ELSE IF v.int /\ w.int THEN PyInt(BDivBig(v.m, w.m).quot)
    ELSE PyFloat(FloatFloorDiv(AsFloat(v), AsFloat(w)))

(***************************************************************************)
(* The ledger.  One position (OldId) of the pair (Token0Addr, Token1Addr)  *)
(* exists when the program starts; positions minted later get fresh ids.   *)
(* Token amounts and liquidity are naturals in limb form.                   *)
(***************************************************************************)
Me == "0xme"

Other == "0xother"

ADDRESS_ZERO == 0

TokenA == ADDRESS_ZERO + 1

TokenB == TokenA + 1

OldId == 1

MAX_UINT128 == BSub(BShl(<<1>>, 128), <<1>>)

VARIABLES
    variant,        \* "v3" or "v4": the protocol the LiquidityManager drives
    maxFeePerGas,   \* configured fee ceiling in Gwei, "None" when absent
    ledger,         \* on-chain state
    last,           \* the lifecycle call made: inputs, submissions, outcome
    pc              \* "start" until the command has run, then "done"

vars == <<variant, maxFeePerGas, ledger, last, pc>>

\* a submission as the ledger records it; unused fields keep these values
NoTx ==
    [kind |-> "none", actions |-> <<>>, params |-> <<>>, id |-> 0,
     liquidity |-> <<>>,
     token0 |-> -1, token1 |-> -1, tick_lower |-> 0, tick_upper |-> 0,
     amount0 |-> <<>>, amount1 |-> <<>>, amount0_min |-> <<>>,
     amount1_min |-> <<>>, spender |-> "none", value |-> <<>>]

PositionExists(L) == L.owner # "burned"

\* tokens a decrease of liq releases to the position's owed balances: the
\* ledger's pricing is outside the engine, one unit of each token per unit
LedgerTokensFor(liq) == [a0 |-> liq, a1 |-> liq]

\* does the ledger accept the submission in state L (else it reverts)
LedgerAccepts(L, tx) ==
    CASE tx.kind = "approve"  -> TRUE
      [] tx.kind = "decrease" ->
            /\ PositionExists(L) /\ L.owner = Me /\ tx.id = OldId
            /\ BLeq(tx.liquidity, L.liquidity)
      [] tx.kind = "collect"  ->
            PositionExists(L) /\ L.owner = Me /\ tx.id = OldId
      [] tx.kind = "burn"     ->
            /\ PositionExists(L) /\ L.owner = Me /\ tx.id = OldId
            /\ L.liquidity = <<>> /\ L.owed.a0 = <<>> /\ L.owed.a1 = <<>>
      [] tx.kind = "mint"     ->
            /\ tx.tick_lower < tx.tick_upper
            /\ BLeq(tx.amount0, L.wallet[tx.token0])
            /\ BLeq(tx.amount1, L.wallet[tx.token1])
            /\ tx.token0 = ADDRESS_ZERO \/ BLeq(tx.amount0, L.allowance[tx.token0])
            /\ tx.token1 = ADDRESS_ZERO \/ BLeq(tx.amount1, L.allowance[tx.token1])
      [] OTHER -> FALSE

\* state of the ledger after a confirmed submission
LedgerApply(L, tx) ==
    CASE tx.kind = "approve"  ->
            [L EXCEPT !.allowance[tx.token0] = tx.amount0]
      [] tx.kind = "decrease" ->
            LET rel == LedgerTokensFor(tx.liquidity)
                l1  == [L EXCEPT !.liquidity = BSub(@, tx.liquidity),
                                 !.owed = [a0 |-> BAdd(@.a0, rel.a0),
                                           a1 |-> BAdd(@.a1, rel.a1)]]
            IN  \* a batch ending in TAKE_PAIR pays the balances out at once
                IF "TAKE_PAIR" \in {tx.actions[i] : i \in 1..Len(tx.actions)}
                THEN [l1 EXCEPT !.wallet[TokenA] = BAdd(@, l1.owed.a0),
                                !.wallet[TokenB] = BAdd(@, l1.owed.a1),
                                !.owed = [a0 |-> <<>>, a1 |-> <<>>]]
                ELSE l1
      [] tx.kind = "collect"  ->
            [L EXCEPT !.wallet[TokenA] = BAdd(@, L.owed.a0),
                      !.wallet[TokenB] = BAdd(@, L.owed.a1),
                      !.owed = [a0 |-> <<>>, a1 |-> <<>>]]
      [] tx.kind = "burn"     -> [L EXCEPT !.owner = "burned"]
      [] tx.kind = "mint"     ->
            [L EXCEPT !.wallet[tx.token0] = BSub(@, tx.amount0),
                      !.wallet[tx.token1] = BSub(@, tx.amount1),
                      !.minted = Append(@, [id |-> OldId + Len(@) + 1,
                                            token0 |-> tx.token0,
                                            token1 |-> tx.token1,
                                            tick_lower |-> tx.tick_lower,
                                            tick_upper |-> tx.tick_upper,
                                            amount0 |-> tx.amount0,
                                            amount1 |-> tx.amount1])]
      [] OTHER -> L

(***************************************************************************)
(* Execution context of one lifecycle call.  A raised exception is kept    *)
(* in err and skips every later statement; ret is the value returned by    *)
(* the last wrapper call and result the dictionary remove_liquidity builds *)
(* up.  The statements of a method are local operators that take the       *)
(* context the preceding statement left.  oracle.revert holds the          *)
(* positions, in the call's sequence of submissions, of transactions that  *)
(* revert on their own (gas, deadline, price movement); oracle.timeout is  *)
(* the position of a submission whose receipt does not arrive in time;     *)
(* oracle.unparsed says that the receipt of a confirmed mint carries no    *)
(* event from which the wrappers can read the new token id.                *)
(***************************************************************************)
NoReceipt == [status |-> "none", token_id |-> 0]

NewCtx(L) ==
    [ledger |-> L, log |-> <<>>, err |-> "none", ret |-> NoReceipt,
     result |-> [keys |-> {}]]

Raise(c, e) == [c EXCEPT !.err = e]

\* sign_transaction, send_raw_transaction, wait_for_transaction_receipt
SendRaw(c, tx, oracle) ==
    LET Mined(ok) ==
            [c EXCEPT !.ledger = IF ok THEN LedgerApply(@, tx) ELSE @,
                      !.log = Append(@, [tx |-> tx,
                                         status |-> IF ok THEN "confirmed"
                                                    ELSE "reverted",
                                         posLiquidity |-> c.ledger.liquidity,
                                         posOwed |-> c.ledger.owed]),
                      !.ret = [status |-> IF ok THEN "confirmed" ELSE "reverted",
                               \* the id the mint wrappers read from the
                               \* receipt's events; 0 stands for None
                               token_id |-> IF /\ ok /\ tx.kind = "mint"
                                               /\ ~oracle.unparsed
                                            THEN OldId + Len(c.ledger.minted) + 1
                                            ELSE 0]]
        \* wait_for_transaction_receipt gives up on a transaction that is
        \* still pending: its exception reaches the caller
        Pending ==
            [c EXCEPT !.log = Append(@, [tx |-> tx, status |-> "unknown",
                                         posLiquidity |-> c.ledger.liquidity,
                                         posOwed |-> c.ledger.owed]),
                      !.err = "TimeExhausted"]
    IN  IF Len(c.log) + 1 = oracle.timeout THEN Pending
        ELSE Mined(LedgerAccepts(c.ledger, tx)
                   /\ (Len(c.log) + 1) \notin oracle.revert)

GWEI == 10^9

\* GasManager.getGasParams: the ceiling check
GasPriceTooHigh(ceiling, base_fee) ==
    ceiling.set /\ ceiling.gwei * GWEI < base_fee

\* build_and_send sending a reverted transaction a second time
build_and_send_Resend(c, tx, oracle) ==
    LET Again(c1) ==
            IF c1.err = "none" /\ c1.ret.status = "reverted"
            THEN SendRaw(c1, tx, oracle) ELSE c1
    IN  IF GasPriceTooHigh(maxFeePerGas, c.ledger.baseFee)
        THEN Raise(c, "GasPriceTooHighError")
        ELSE Again(SendRaw(c, tx, oracle))

\* TransactionBuilder.build_and_send
build_and_send(c, tx, oracle) ==
    IF GasPriceTooHigh(maxFeePerGas, c.ledger.baseFee)
    THEN Raise(c, "GasPriceTooHighError")
    ELSE SendRaw(c, tx, oracle)

(***************************************************************************)
(* NFPM: the direct-call wrapper.  It builds legacy gasPrice transactions  *)
(* itself.                                                                  *)
(***************************************************************************)
NFPM_decrease_liquidity(c, token_id, liquidity, oracle) ==
    LET Checked(c1) ==
            IF c1.err = "none" /\ c1.ret.status # "confirmed"
            THEN Raise(c1, "Exception") ELSE c1
    IN  Checked(SendRaw(c, [NoTx EXCEPT !.kind = "decrease", !.id = token_id,
                                        !.liquidity = liquidity], oracle))

NFPM_collect(c, token_id, oracle) ==
    SendRaw(c, [NoTx EXCEPT !.kind = "collect", !.id = token_id,
                            !.amount0 = MAX_UINT128, !.amount1 = MAX_UINT128],
            oracle)

NFPM_burn(c, token_id, oracle) ==
    SendRaw(c, [NoTx EXCEPT !.kind = "burn", !.id = token_id], oracle)

(***************************************************************************)
(* PositionManager: the batched-action wrapper.  Each step is one          *)
(* modifyLiquidities call carrying an action list, sent through the        *)
(* TransactionBuilder.                                                      *)
(***************************************************************************)
encode_decrease_liquidity(token_id, liquidity) ==
    [NoTx EXCEPT !.actions = <<"DECREASE_LIQUIDITY", "TAKE_PAIR">>,
                 !.params = <<"decrease_params", "take_params">>,
                 !.id = token_id, !.liquidity = liquidity]

encode_collect_fees(token_id) == encode_decrease_liquidity(token_id, <<>>)

encode_burn_position(token_id) ==
    [NoTx EXCEPT !.actions = <<"BURN_POSITION">>,
                 !.params = <<"burn_params">>, !.id = token_id]

PM_decrease_liquidity(c, token_id, liquidity, oracle) ==
    LET Checked(c1) ==
            IF c1.err = "none" /\ c1.ret.status # "confirmed"
            THEN Raise(c1, "PositionError: failed") ELSE c1
    IN  Checked(build_and_send(c, [encode_decrease_liquidity(token_id, liquidity)
                                      EXCEPT !.kind = "decrease"], oracle))

PM_collect_fees(c, token_id, oracle) ==
    LET Checked(c1) ==
            IF c1.err = "none" /\ c1.ret.status # "confirmed"
            THEN Raise(c1, "PositionError: failed") ELSE c1
    IN  Checked(build_and_send(c, [encode_collect_fees(token_id)
                                      EXCEPT !.kind = "collect"], oracle))

PM_burn(c, token_id, oracle) ==
    LET Checked(c1) ==
            IF c1.err = "none" /\ c1.ret.status # "confirmed"
            THEN Raise(c1, "PositionError: failed") ELSE c1
    IN  Checked(build_and_send(c, [encode_burn_position(token_id)
                                      EXCEPT !.kind = "burn"], oracle))

(***************************************************************************)
(* LiquidityManager.remove_liquidity, both protocols.  percentage is the   *)
(* float the command line parses; it holds a whole number here.            *)
(***************************************************************************)
\* int(liquidity * percentage / 100)
PercentOfLiquidity(liquidity, percentage) ==
    IntOfFloat(FloatDivInt(FloatMul(FloatOfInt(liquidity),
                                    FloatOfInt(BFromInt(percentage))), 100))

liquidity_to_remove(liquidity, percentage) ==
    IF percentage = 100 THEN liquidity
    ELSE PercentOfLiquidity(liquidity, percentage)

NoResult ==
    [keys |-> {}, decrease_receipt |-> NoReceipt, collect_receipt |-> NoReceipt,
     burn_receipt |-> NoReceipt, burn_skipped |-> ""]

\* RemoveChecks without the comparison of the owner with the caller
RemoveChecks_NoOwnerCheck(c) ==
    IF ~PositionExists(c.ledger) THEN Raise(c, "ContractLogicError")
    ELSE IF c.ledger.liquidity = <<>>
    THEN Raise(c, "PositionError: no liquidity")
    ELSE c

\* the statements up to the first submission: ownership, liquidity
RemoveChecks(c) ==
    IF ~PositionExists(c.ledger) THEN Raise(c, "ContractLogicError")
    ELSE IF c.ledger.owner # Me THEN Raise(c, "PositionError: not owned")
    ELSE IF c.ledger.liquidity = <<>>
    THEN Raise(c, "PositionError: no liquidity")
    ELSE c

V3_remove_liquidity(c, a, oracle) ==
    LET \* result[key] = receipt
        Store(c1, key) ==
            IF c1.err # "none" THEN c1
            ELSE [c1 EXCEPT !.result = [@ EXCEPT !.keys = @ \cup {key},
                                                 ![key] = c1.ret]]
        DecreaseBy(c1, liq) ==
            IF c1.err # "none" THEN c1
            ELSE IF liq = <<>> THEN Raise(c1, "ValueError")
            ELSE Store(NFPM_decrease_liquidity(
                           [c1 EXCEPT !.result =
                               [NoResult EXCEPT !.keys = {"token_id"}]],
                           OldId, liq, oracle),
                       "decrease_receipt")
        Collect(c2) ==
            IF c2.err # "none" \/ ~a.collect_fees THEN c2
            ELSE Store(NFPM_collect(c2, OldId, oracle), "collect_receipt")
        Burn(c3) ==
            IF c3.err # "none" \/ ~a.burn THEN c3
            ELSE IF a.percentage # 100
            THEN [c3 EXCEPT !.result =
                     [@ EXCEPT !.keys = @ \cup {"burn_skipped"},
                               !.burn_skipped =
                                  "Can only burn when removing 100% liquidity"]]
            ELSE Store(NFPM_burn(c3, OldId, oracle), "burn_receipt")
        Return(c4) ==
            IF c4.err # "none" THEN c4 ELSE [c4 EXCEPT !.ret = c4.result]
    IN  Return(Burn(Collect(DecreaseBy(
            RemoveChecks(c),
            liquidity_to_remove(c.ledger.liquidity, a.percentage)))))

V4_remove_liquidity(c, a, oracle) ==
    LET \* result[key] = receipt
        Store(c1, key) ==
            IF c1.err # "none" THEN c1
            ELSE [c1 EXCEPT !.result = [@ EXCEPT !.keys = @ \cup {key},
                                                 ![key] = c1.ret]]
        DecreaseBy(c1, liq) ==
            IF c1.err # "none" THEN c1
            ELSE IF liq = <<>> THEN Raise(c1, "ValueError")
            ELSE Store(PM_decrease_liquidity(
                           [c1 EXCEPT !.result =
                               [NoResult EXCEPT !.keys = {"token_id"}]],
                           OldId, liq, oracle),
                       "decrease_receipt")
        Collect(c2) ==
            IF c2.err # "none" \/ ~a.collect_fees THEN c2
            ELSE Store(PM_collect_fees(c2, OldId, oracle), "collect_receipt")
        Burn(c3) ==
            IF c3.err # "none" \/ ~a.burn THEN c3
            ELSE IF a.percentage # 100
            THEN [c3 EXCEPT !.result =
                     [@ EXCEPT !.keys = @ \cup {"burn_skipped"},
                               !.burn_skipped =
                                  "Can only burn when removing 100% liquidity"]]
            ELSE Store(PM_burn(c3, OldId, oracle), "burn_receipt")
        Return(c4) ==
            IF c4.err # "none" THEN c4 ELSE [c4 EXCEPT !.ret = c4.result]
    IN  Return(Burn(Collect(DecreaseBy(
            RemoveChecks(c),
            liquidity_to_remove(c.ledger.liquidity, a.percentage)))))

remove_liquidity(v, c, a, oracle) ==
    IF v = "v3" THEN V3_remove_liquidity(c, a, oracle)
    ELSE V4_remove_liquidity(c, a, oracle)

(***************************************************************************)
(* Tick and amount arithmetic.                                              *)
(***************************************************************************)
\* Config.TICK_SPACING; 0 stands for a fee tier that is not in the table
TickSpacing(fee) ==
    CASE fee = 100 -> 1 [] fee = 500 -> 10 [] fee = 3000 -> 60
      [] fee = 10000 -> 200 [] OTHER -> 0

\* a Python int as sign and magnitude
SignedOf(n) == [neg |-> n < 0, mag |-> BFromInt(IF n < 0 THEN 0 - n ELSE n)]

RECURSIVE BToInt(_)
BToInt(s) == IF s = <<>> THEN 0 ELSE s[1] + Base * BToInt(Tail(s))

IntOfSigned(t) == IF t.neg THEN 0 - BToInt(t.mag) ELSE BToInt(t.mag)

\* math.ceil(x) of a float x >= 0
CeilOfFloat(x) ==
    LET Up(q) == IF BShl(q, 0 - x.e) = x.m THEN q ELSE BAdd(q, <<1>>)
    IN  IF x.e >= 0 THEN BShl(x.m, x.e) ELSE Up(BShr(x.m, 0 - x.e))

\* -math.floor(tick / spacing) for tick = -mag < 0: the true division of the
\* two ints gives the nearest float, and the floor of -x is -ceil(x)
FloorOfNegativeQuotient(mag, spacing) ==
    CeilOfFloat(RoundRatio(mag, <<spacing>>))

\* math.round_tick_to_spacing, on ints in sign and magnitude form
round_tick_to_spacing(tick, spacing) ==
    IF ~tick.neg
    THEN [neg |-> FALSE,
          mag |-> BMulSmall(BDivSmall(tick.mag, spacing).quot, spacing)]
    ELSE [neg |-> TRUE,
          mag |-> BMulSmall(FloorOfNegativeQuotient(tick.mag, spacing), spacing)]

\* round_tick_to_spacing applied to a tick argument of the command line
RoundedTick(tick, spacing) ==
    IntOfSigned(round_tick_to_spacing(SignedOf(tick), spacing))

RECURSIVE BPow10(_)
BPow10(n) == IF n = 0 THEN <<1>> ELSE BMulSmall(BPow10(n - 1), 10)

\* decimals() of the token contracts; the native asset has 18
Decimals(token) == IF token = TokenB THEN 6 ELSE 18

\* ERC20.to_wei / LiquidityManager._to_wei: int(amount * (10 ** decimals))
to_wei(amount, token) ==
    IntOfFloat(FloatMul(amount, FloatOfInt(BPow10(Decimals(token)))))

\* calculate_slippage_amounts, one amount:
\* int(amount * ((10000 - slippage_bps) / 10000))
slippage_min(amount, slippage_bps) ==
    IntOfFloat(FloatMul(FloatOfInt(amount),
                        RoundRatio(BFromInt(10000 - slippage_bps), <<10000>>)))

calculate_slippage_amounts(amount0, amount1, slippage_bps) ==
    <<slippage_min(amount0, slippage_bps), slippage_min(amount1, slippage_bps)>>

Q96 == BShl(<<1>>, 96)

\* a float from the high 26 and low 27 bits of its mantissa
FloatBits(hi, lo, e) ==
    [m |-> BAdd(BShl(BFromInt(hi), 27), BFromInt(lo)), e |-> e]

\* math.tick_to_sqrt_price: 1.0001 ** (tick / 2), the doubles that pow
\* returns for the ticks used
tick_to_sqrt_price(tick) ==
    CASE tick = -120 -> FloatBits(66707436, 50217071, -53)
      [] tick = -60  -> FloatBits(66907849, 17667359, -53)
      [] tick = 0    -> FloatBits(33554432, 0, -52)
      [] tick = 60   -> FloatBits(33655241, 52895500, -52)
      [] tick = 120  -> FloatBits(33756353, 87955173, -52)

\* 1.0001 ** tick of tick_to_price: the doubles that pow returns for the
\* ticks used
Pow1_0001(tick) ==
    CASE tick = -887220 -> FloatBits(33731896, 60746548, -180)
      [] tick = -600    -> FloatBits(63200937, 79754640, -53)
      [] tick = -60     -> FloatBits(66707436, 50217071, -53)
      [] tick = 0       -> FloatBits(33554432, 0, -52)
      [] tick = 60      -> FloatBits(33756353, 87955173, -52)
      [] tick = 600     -> FloatBits(35629215, 42344340, -52)
      [] tick = 887220  -> FloatBits(66755802, 51770899, 75)

\* math.tick_to_price
tick_to_price(tick, decimals0, decimals1) ==
    FloatDiv(FloatMul(Pow1_0001(tick), FloatOfInt(BPow10(decimals0))),
             FloatOfInt(BPow10(decimals1)))

\* math.log(1.001) in the place of math.log(1.0001)
Log1_001 == FloatBits(34342569, 126631108, -62)

\* math.log(1.0001)
Log1_0001 == FloatBits(54972832, 106429652, -66)

\* math.log: pairs of an argument and the double that log returns for it,
\* as its sign and its magnitude
LogTable ==
    <<<<FloatBits(33731896, 60746548, -180),
        [neg |-> TRUE, value |-> FloatBits(46513554, 39867951, -46)]>>,
      <<FloatBits(63200937, 79754640, -53),
        [neg |-> TRUE, value |-> FloatBits(64421288, 57613386, -57)]>>,
      <<FloatBits(66707436, 50217071, -53),
        [neg |-> TRUE, value |-> FloatBits(51537030, 99777829, -60)]>>,
      <<FloatBits(66707436, 50217072, -53),
        [neg |-> TRUE, value |-> FloatBits(51537030, 99777700, -60)]>>,
      <<FloatBits(33554432, 0, -52),
        [neg |-> FALSE, value |-> Float0]>>,
      <<FloatBits(33756353, 87955173, -52),
        [neg |-> FALSE, value |-> FloatBits(51537030, 99777758, -60)]>>,
      <<FloatBits(33756353, 87955174, -52),
        [neg |-> FALSE, value |-> FloatBits(51537030, 99778013, -60)]>>,
      <<FloatBits(35629215, 42344340, -52),
        [neg |-> FALSE, value |-> FloatBits(64421288, 57613373, -57)]>>,
      <<FloatBits(35629215, 42344341, -52),
        [neg |-> FALSE, value |-> FloatBits(64421288, 57613403, -57)]>>,
      <<FloatBits(66755802, 51770899, 75),
        [neg |-> FALSE, value |-> FloatBits(46513554, 39867951, -46)]>>>>

math_log(x) ==
    LogTable[CHOOSE i \in 1..Len(LogTable) : FloatCmp(x, LogTable[i][1]) = 0][2]

\* int(log / math.log(1.0001)) of price_to_tick: the quotient has the sign
\* of log and int() drops its fraction
TickOfLog(log) ==
    LET Signed(mag) == [neg |-> log.neg /\ mag # <<>>, mag |-> mag]
    IN  Signed(IntOfFloat(FloatDiv(log.value, Log1_0001)))

\* math.price_to_tick
price_to_tick(price, decimals0, decimals1) ==
    TickOfLog(math_log(FloatDiv(FloatMul(price, FloatOfInt(BPow10(decimals1))),
                                FloatOfInt(BPow10(decimals0)))))

\* liquidity0 of calculate_liquidity_from_amounts
Liquidity0(amount0, sqrt_price_current, sqrt_price_upper) ==
    IF amount0 # <<>> /\ PyCmp(sqrt_price_current, sqrt_price_upper) < 0
    THEN PyFloorDiv(PyMul(PyMul(PyInt(amount0), sqrt_price_current),
                          sqrt_price_upper),
                    PyMul(PySub(sqrt_price_upper, sqrt_price_current),
                          PyInt(Q96)))
    ELSE PyInt(<<>>)

\* liquidity1 of calculate_liquidity_from_amounts
Liquidity1(amount1, sqrt_price_current, sqrt_price_lower) ==
    IF amount1 # <<>> /\ PyCmp(sqrt_price_current, sqrt_price_lower) > 0
    THEN PyFloorDiv(PyMul(PyInt(amount1), PyInt(Q96)),
                    PySub(sqrt_price_current, sqrt_price_lower))
    ELSE PyInt(<<>>)

\* the current sqrt price clamped to the range
ClampedPrice(sqrt_price_x96, sqrt_price_lower, sqrt_price_upper) ==
    IF PyCmp(PyInt(sqrt_price_x96), sqrt_price_lower) < 0
    THEN sqrt_price_lower
    ELSE IF PyCmp(PyInt(sqrt_price_x96), sqrt_price_upper) > 0
    THEN sqrt_price_upper
    ELSE PyInt(sqrt_price_x96)

\* sqrt_price_lower, sqrt_price_upper = tick_to_sqrt_price(tick) * Q96
SqrtPriceAt(tick) == PyMul(PyFloat(tick_to_sqrt_price(tick)), PyInt(Q96))

\* uniswap_v4.math.calculate_liquidity_from_amounts
calculate_liquidity_from_amounts(sqrt_price_x96, tick_lower, tick_upper, amount0, amount1) ==
    LET Limiting(liquidity0, liquidity1) ==
            IF liquidity0.err # "none" THEN liquidity0
            ELSE IF liquidity1.err # "none" THEN liquidity1
            ELSE IF liquidity0.m = <<>> THEN liquidity1
            ELSE IF liquidity1.m = <<>> THEN liquidity0
            ELSE IF PyCmp(liquidity1, liquidity0) < 0 THEN liquidity1
            ELSE liquidity0
        Clamped(sqrt_price_current, sqrt_price_lower, sqrt_price_upper) ==
            Limiting(Liquidity0(amount0, sqrt_price_current, sqrt_price_upper),
                     Liquidity1(amount1, sqrt_price_current, sqrt_price_lower))
        Bounds(sqrt_price_lower, sqrt_price_upper) ==
            Clamped(ClampedPrice(sqrt_price_x96, sqrt_price_lower,
                                 sqrt_price_upper),
                    sqrt_price_lower, sqrt_price_upper)
    IN  Bounds(SqrtPriceAt(tick_lower), SqrtPriceAt(tick_upper))

\* ERC20.approve without its allowance test
ERC20_approve_Always(c, token, spender, amount_wei, oracle) ==
    LET Checked(c1) ==
            IF c1.err = "none" /\ c1.ret.status # "confirmed"
            THEN Raise(c1, "Exception") ELSE c1
    IN  Checked(build_and_send(c, [NoTx EXCEPT !.kind = "approve",
                                               !.token0 = token,
                                               !.spender = spender,
                                               !.amount0 = amount_wei],
                               oracle))

\* ERC20.approve: nothing is sent when the allowance already covers amount
ERC20_approve(c, token, spender, amount_wei, oracle) ==
    LET Checked(c1) ==
            IF c1.err = "none" /\ c1.ret.status # "confirmed"
            THEN Raise(c1, "Exception") ELSE c1
    IN  IF BLeq(amount_wei, c.ledger.allowance[token]) THEN c
        ELSE Checked(build_and_send(c, [NoTx EXCEPT !.kind = "approve",
                                                    !.token0 = token,
                                                    !.spender = spender,
                                                    !.amount0 = amount_wei],
                                    oracle))

\* NFPM.mint
NFPM_mint(c, params, oracle) ==
    LET Checked(c1) ==
            IF c1.err = "none" /\ c1.ret.status # "confirmed"
            THEN Raise(c1, "Exception") ELSE c1
    IN  Checked(SendRaw(c, [params EXCEPT !.kind = "mint"], oracle))

\* LiquidityManager._ensure_token_order
ensure_token_order(token0, token1, amount0, amount1) ==
    IF token0 > token1
    THEN [token0 |-> token1, token1 |-> token0,
          amount0 |-> amount1, amount1 |-> amount0, swapped |-> TRUE]
    ELSE [token0 |-> token0, token1 |-> token1,
          amount0 |-> amount0, amount1 |-> amount1, swapped |-> FALSE]

NoAddResult ==
    [keys |-> {}, token_id |-> 0, receipt |-> NoReceipt,
     tick_lower |-> 0, tick_upper |-> 0, tokens_swapped |-> FALSE]

AddKeysV3 ==
    {"token_id", "receipt", "token0", "token1", "tick_lower", "tick_upper",
     "tokens_swapped"}

\* AddChecks without the test of the rounded range
AddChecks_NoRangeCheck(c, o, spacing, tl, tu, w0, w1) ==
    IF spacing = 0 THEN Raise(c, "ConfigError")
    ELSE IF ~BLeq(w0, c.ledger.wallet[o.token0])
    THEN Raise(c, "InsufficientBalanceError")
    ELSE IF ~BLeq(w1, c.ledger.wallet[o.token1])
    THEN Raise(c, "InsufficientBalanceError")
    ELSE c

\* the checks of add_liquidity that precede its first submission
AddChecks(c, o, spacing, tl, tu, w0, w1) ==
    IF spacing = 0 THEN Raise(c, "ConfigError")
    ELSE IF tl >= tu THEN Raise(c, "ValueError")
    ELSE IF ~BLeq(w0, c.ledger.wallet[o.token0])
    THEN Raise(c, "InsufficientBalanceError")
    ELSE IF ~BLeq(w1, c.ledger.wallet[o.token1])
    THEN Raise(c, "InsufficientBalanceError")
    ELSE c

V3_add_liquidity(c, a, oracle) ==
    LET Return(c4, o, tl, tu) ==
            IF c4.err # "none" THEN c4
            ELSE [c4 EXCEPT !.ret =
                     [NoAddResult EXCEPT !.keys = AddKeysV3,
                                         !.token_id = c4.ret.token_id,
                                         !.receipt = c4.ret,
                                         !.tick_lower = tl, !.tick_upper = tu,
                                         !.tokens_swapped = o.swapped]]
        Mint(c3, o, tl, tu, w0, w1, mins) ==
            IF c3.err # "none" THEN c3
            ELSE NFPM_mint(c3, [NoTx EXCEPT !.token0 = o.token0,
                                            !.token1 = o.token1,
                                            !.tick_lower = tl, !.tick_upper = tu,
                                            !.amount0 = w0, !.amount1 = w1,
                                            !.amount0_min = mins[1],
                                            !.amount1_min = mins[2]], oracle)
        Approve(c1, token, w) ==
            IF c1.err # "none" THEN c1
            ELSE ERC20_approve(c1, token, "nfpm", w, oracle)
        Prepared(o, spacing, tl, tu, w0, w1) ==
            Return(Mint(Approve(Approve(AddChecks(c, o, spacing, tl, tu, w0, w1),
                                        o.token0, w0),
                                o.token1, w1),
                        o, tl, tu, w0, w1,
                        calculate_slippage_amounts(w0, w1, a.slippage_bps)),
                   o, tl, tu)
        Ordered(o, spacing) ==
            Prepared(o, spacing,
                     RoundedTick(a.tick_lower, spacing),
                     RoundedTick(a.tick_upper, spacing),
                     to_wei(o.amount0, o.token0), to_wei(o.amount1, o.token1))
    IN  Ordered(ensure_token_order(a.token0, a.token1, a.amount0, a.amount1),
                TickSpacing(a.fee))

\* types.sort_currencies
sort_currencies(token_a, token_b) ==
    IF token_a < token_b THEN <<token_a, token_b>> ELSE <<token_b, token_a>>

is_native_eth(address) == address = ADDRESS_ZERO

\* types.PoolKey: the dataclass with its __post_init__ test. An address is
\* held as the number its lower-case text denotes, which is what the test
\* compares.
PoolKey(currency0, currency1, fee, tick_spacing) ==
    IF currency0 > currency1
    THEN [err |-> "ValueError", currency0 |-> -1, currency1 |-> -1,
          fee |-> 0, tick_spacing |-> 0, hooks |-> ADDRESS_ZERO]
    ELSE [err |-> "none", currency0 |-> currency0, currency1 |-> currency1,
          fee |-> fee, tick_spacing |-> tick_spacing, hooks |-> ADDRESS_ZERO]

\* types.create_pool_key with tick_spacing left to the fee tier's default
\* (DEFAULT_TICK_SPACING holds the entries of Config.TICK_SPACING)
create_pool_key(token_a, token_b, fee) ==
    LET Key(cur, tick_spacing) ==
            IF tick_spacing = 0
            THEN [PoolKey(1, 0, 0, 0) EXCEPT !.err = "ValueError: fee"]
            ELSE PoolKey(cur[1], cur[2], fee, tick_spacing)
    IN  Key(sort_currencies(token_a, token_b), TickSpacing(fee))

encode_mint_position(currency0, currency1, tl, tu, amount0_max, amount1_max) ==
    [NoTx EXCEPT !.actions = <<"MINT_POSITION", "SETTLE_PAIR">>,
                 !.params = <<"mint_params", "settle_params">>,
                 !.token0 = currency0, !.token1 = currency1,
                 !.tick_lower = tl, !.tick_upper = tu,
                 !.amount0 = amount0_max, !.amount1 = amount1_max]

\* encode_mint_position_with_native_eth without the trailing SWEEP
encode_mint_position_with_native_eth_NoSweep(currency0, currency1, tl, tu, amount0_max, amount1_max) ==
    encode_mint_position(currency0, currency1, tl, tu, amount0_max, amount1_max)

encode_mint_position_with_native_eth(currency0, currency1, tl, tu, amount0_max, amount1_max) ==
    [NoTx EXCEPT !.actions = <<"MINT_POSITION", "SETTLE_PAIR", "SWEEP">>,
                 !.params = <<"mint_params", "settle_params", "sweep_params">>,
                 !.token0 = currency0, !.token1 = currency1,
                 !.tick_lower = tl, !.tick_upper = tu,
                 !.amount0 = amount0_max, !.amount1 = amount1_max]

\* PositionManager.mint, up to the submission: the encoder it chooses and
\* the value it sends along
encode_mint(currency0, currency1, tl, tu, amount0_max, amount1_max) ==
    IF is_native_eth(currency0) \/ is_native_eth(currency1)
    THEN [encode_mint_position_with_native_eth(currency0, currency1, tl, tu,
                                               amount0_max, amount1_max)
             EXCEPT !.value = IF is_native_eth(currency0) THEN amount0_max
                              ELSE amount1_max]
    ELSE encode_mint_position(currency0, currency1, tl, tu,
                              amount0_max, amount1_max)

\* PositionManager.mint
PM_mint(c, currency0, currency1, tl, tu, amount0_max, amount1_max, oracle) ==
    LET Checked(c1) ==
            IF c1.err = "none" /\ c1.ret.status # "confirmed"
            THEN Raise(c1, "PositionError: failed") ELSE c1
    IN  Checked(build_and_send(c, [encode_mint(currency0, currency1, tl, tu,
                                               amount0_max, amount1_max)
                                      EXCEPT !.kind = "mint"], oracle))

AddKeysV4 == AddKeysV3 \cup {"uses_native_eth"}

V4_add_liquidity(c, a, oracle) ==
    LET Return(c4, swapped, tl, tu) ==
            IF c4.err # "none" THEN c4
            ELSE [c4 EXCEPT !.ret =
                     [NoAddResult EXCEPT !.keys = AddKeysV4,
                                         !.token_id = c4.ret.token_id,
                                         !.receipt = c4.ret,
                                         !.tick_lower = tl, !.tick_upper = tu,
                                         !.tokens_swapped = swapped]]
        Mint(c3, o, tl, tu, w0, w1) ==
            IF c3.err # "none" THEN c3
            ELSE PM_mint(c3, o.token0, o.token1, tl, tu, w0, w1, oracle)
        Approve(c1, token, w) ==
            IF c1.err # "none" \/ is_native_eth(token) THEN c1
            ELSE ERC20_approve(c1, token, "position_manager", w, oracle)
        Prepared(o, swapped, spacing, tl, tu, w0, w1) ==
            Return(Mint(Approve(Approve(AddChecks(c, o, spacing, tl, tu, w0, w1),
                                        o.token0, w0),
                                o.token1, w1),
                        o, tl, tu, w0, w1),
                   swapped, tl, tu)
        Ordered(o, swapped, spacing) ==
            Prepared(o, swapped, spacing,
                     RoundedTick(a.tick_lower, spacing),
                     RoundedTick(a.tick_upper, spacing),
                     to_wei(o.amount0, o.token0), to_wei(o.amount1, o.token1))
        Sorted(cur, swapped) ==
            Ordered([token0 |-> cur[1], token1 |-> cur[2],
                     amount0 |-> IF swapped THEN a.amount1 ELSE a.amount0,
                     amount1 |-> IF swapped THEN a.amount0 ELSE a.amount1],
                    swapped, TickSpacing(a.fee))
        Currencies(cur) == Sorted(cur, cur[1] # a.token0)
    IN  Currencies(sort_currencies(a.token0, a.token1))

(***************************************************************************)
(* add_liquidity_range.  a.tick_lower and a.tick_upper are the ticks that  *)
(* price_to_tick gives for current_price * (1 + percent) at the pool's     *)
(* price; percent_lower and percent_upper are held in hundredths.           *)
(***************************************************************************)
V3_add_liquidity_range(c, a, oracle) ==
    IF a.percent_lower >= a.percent_upper THEN Raise(c, "ValueError")
    ELSE LET sorted == IF a.token0 > a.token1
                       THEN <<a.token1, a.token0>>
                       ELSE <<a.token0, a.token1>>
         IN  V3_add_liquidity(c, [a EXCEPT !.token0 = sorted[1],
                                           !.token1 = sorted[2]], oracle)

V4_add_liquidity_range(c, a, oracle) ==
    IF a.percent_lower >= a.percent_upper THEN Raise(c, "ValueError")
    ELSE V4_add_liquidity(c, a, oracle)

(***************************************************************************)
(* LiquidityManager.calculate_optimal_amounts and its percentage wrapper.  *)
(* Both read the pool and submit nothing. A desired amount is a float or   *)
(* None. pool is what the chain answers: whether the pool exists (the      *)
(* factory lookup of the direct-call protocol), its current tick, and the  *)
(* outcome of the in-range float expression at its sqrt price, which is a  *)
(* float or, when the price sits on a bound of the range, a division by    *)
(* zero.                                                                   *)
(***************************************************************************)
None == [none |-> TRUE, value |-> Float0]

Some(x) == [none |-> FALSE, value |-> x]

NoPlan ==
    [err |-> "none", position_type |-> "none",
     token0 |-> [address |-> -1, amount |-> Float0],
     token1 |-> [address |-> -1, amount |-> Float0],
     tick_lower |-> 0, tick_upper |-> 0, current_tick |-> 0]

\* "Must specify exactly one of amount0_desired or amount1_desired"
ExactlyOne(amount0_desired, amount1_desired) ==
    ~ \/ (amount0_desired.none /\ amount1_desired.none)
      \/ (~amount0_desired.none /\ ~amount1_desired.none)

\* the desired amounts after the tokens were put in canonical order
SwapDesired_Keep(amount0_desired, amount1_desired) ==
    <<amount0_desired, amount1_desired>>

SwapDesired(amount0_desired, amount1_desired) ==
    IF ~amount0_desired.none
    THEN <<None, amount0_desired>>
    ELSE <<amount1_desired, None>>

\* position type, amounts and result of calculate_optimal_amounts, from the
\* canonically ordered tokens on
PositionPlan(currency0, currency1, tick_lower, tick_upper, desired, swapped, pool) ==
    LET Result(position_type, calculated_amount0, calculated_amount1) ==
            LET r0 == [address |-> currency0, amount |-> calculated_amount0]
                r1 == [address |-> currency1, amount |-> calculated_amount1]
            IN  [NoPlan EXCEPT !.position_type = position_type,
                               !.token0 = IF swapped THEN r1 ELSE r0,
                               !.token1 = IF swapped THEN r0 ELSE r1,
                               !.tick_lower = tick_lower,
                               !.tick_upper = tick_upper,
                               !.current_tick = pool.tick]
        InRange(amount0_desired, amount1_desired) ==
            IF pool.in_range.zero_division
            THEN [NoPlan EXCEPT !.err = "ZeroDivisionError"]
            ELSE IF ~amount0_desired.none
            THEN Result("in_range", amount0_desired.value, pool.in_range.value)
            ELSE Result("in_range", pool.in_range.value, amount1_desired.value)
        Classify(amount0_desired, amount1_desired) ==
            IF pool.tick < tick_lower
            THEN IF ~amount1_desired.none
                 THEN [NoPlan EXCEPT !.err = "ValueError"]
                 ELSE Result("below_range", amount0_desired.value, Float0)
            ELSE IF pool.tick > tick_upper
            THEN IF ~amount0_desired.none
                 THEN [NoPlan EXCEPT !.err = "ValueError"]
                 ELSE Result("above_range", Float0, amount1_desired.value)
            ELSE InRange(amount0_desired, amount1_desired)
    IN  Classify(desired[1], desired[2])

V3_calculate_optimal_amounts(token0, token1, tick_lower, tick_upper, amount0_desired, amount1_desired, pool) ==
    IF ~ExactlyOne(amount0_desired, amount1_desired)
    THEN [NoPlan EXCEPT !.err = "ValueError"]
    ELSE LET Planned(o, desired) ==
                 IF ~pool.exists THEN [NoPlan EXCEPT !.err = "ValueError"]
                 ELSE PositionPlan(o.token0, o.token1, tick_lower, tick_upper,
                                   desired, o.swapped, pool)
             Ordered(o) ==
                 Planned(o, IF o.swapped
                            THEN SwapDesired(amount0_desired, amount1_desired)
                            ELSE <<amount0_desired, amount1_desired>>)
         IN  Ordered(ensure_token_order(token0, token1, None, None))

V4_calculate_optimal_amounts(token0, token1, tick_lower, tick_upper, amount0_desired, amount1_desired, pool) ==
    IF ~ExactlyOne(amount0_desired, amount1_desired)
    THEN [NoPlan EXCEPT !.err = "ValueError"]
    ELSE LET Planned(currencies, swapped) ==
                 PositionPlan(currencies[1], currencies[2], tick_lower,
                              tick_upper,
                              IF swapped
                              THEN SwapDesired(amount0_desired, amount1_desired)
                              ELSE <<amount0_desired, amount1_desired>>,
                              swapped, pool)
             Sorted(currencies) == Planned(currencies, currencies[1] # token0)
         IN  Sorted(sort_currencies(token0, token1))

\* price_lower = current_price * (1 + percent_lower) and price_to_tick of
\* it are float logarithms; ticks holds their two results, which follow
\* the order of the percentages. No statement compares the percentages.
V3_calculate_optimal_amounts_range(token0, token1, fee, ticks, amount0_desired, amount1_desired, pool) ==
    IF ~pool.exists THEN [NoPlan EXCEPT !.err = "ValueError"]
    ELSE V3_calculate_optimal_amounts(
             token0, token1,
             RoundedTick(ticks[1], TickSpacing(fee)),
             RoundedTick(ticks[2], TickSpacing(fee)),
             amount0_desired, amount1_desired, pool)

V4_calculate_optimal_amounts_range(token0, token1, fee, ticks, amount0_desired, amount1_desired, pool) ==
    V4_calculate_optimal_amounts(
        token0, token1,
        RoundedTick(ticks[1], TickSpacing(fee)),
        RoundedTick(ticks[2], TickSpacing(fee)),
        amount0_desired, amount1_desired, pool)

(***************************************************************************)
(* LiquidityManager.migrate_liquidity (direct-call protocol only).         *)
(***************************************************************************)
\* 10 ** n as a product of small factors
Pow10Factors(n) ==
    [i \in 1..(n \div 5) |-> 10^5] \o (IF n % 5 = 0 THEN <<>> ELSE <<10^(n % 5)>>)

\* ERC20.balance_human: balance / (10 ** decimals)
balance_human(L, token) ==
    RoundRatio(L.wallet[token], Pow10Factors(Decimals(token)))

V3_migrate_liquidity(c, a, oracle) ==
    LET Return(remove_result, c3) ==
            IF c3.err # "none" THEN c3
            ELSE [c3 EXCEPT !.ret =
                     [keys |-> {"old_token_id", "new_token_id", "old_range",
                                "new_range", "percentage_migrated",
                                "remove_result", "add_result"},
                      new_token_id |-> c3.ret.token_id,
                      remove_result |-> remove_result, add_result |-> c3.ret]]
        Add(c2, spacing) ==
            IF c2.err # "none" THEN c2
            ELSE Return(c2.ret,
                        V3_add_liquidity(c2,
                           [token0 |-> TokenA, token1 |-> TokenB,
                            fee |-> c.ledger.fee,
                            tick_lower |->
                               RoundedTick(a.tick_lower, spacing),
                            tick_upper |->
                               RoundedTick(a.tick_upper, spacing),
                            amount0 |-> balance_human(c2.ledger, TokenA),
                            amount1 |-> balance_human(c2.ledger, TokenB),
                            slippage_bps |-> a.slippage_bps], oracle))
        Remove(c1) ==
            IF c1.err # "none" THEN c1
            ELSE V3_remove_liquidity(c1,
                    [percentage |-> a.percentage,
                     collect_fees |-> a.collect_fees,
                     burn |-> a.burn /\ a.percentage = 100], oracle)
        Checks ==
            IF ~PositionExists(c.ledger) THEN Raise(c, "ContractLogicError")
            ELSE IF c.ledger.owner # Me
            THEN Raise(c, "PositionError: not owned")
            ELSE c
    IN  Add(Remove(Checks), TickSpacing(c.ledger.fee))

(***************************************************************************)
(* Inputs and initial states.  A run of the command line makes one         *)
(* lifecycle call and exits; the ledger it finds is any initial state.     *)
(***************************************************************************)
\* spontaneous reverts per call
MaxReverts == 1

\* the faults of one call: submissions that revert, or one whose
\* confirmation is not seen in time (0: none)
\* every submission is mined and confirmed in time
NoFault == [revert |-> {}, timeout |-> 0, unparsed |-> FALSE]

\* the receipt of a confirmed mint holds no event a token id can be read from
Unparsed == [NoFault EXCEPT !.unparsed = TRUE]

Oracles(n) ==
    {[NoFault EXCEPT !.revert = S] :
        S \in {T \in SUBSET (1..n) : Cardinality(T) <= MaxReverts}}
    \cup {[NoFault EXCEPT !.timeout = k] : k \in 1..n}

\* the position the command finds: emptied with fees left to collect, a few
\* units, and an amount above 2^53 (real positions hold 1e12..1e24)
InitPositions ==
    {[liquidity |-> <<>>, owed |-> BFromInt(5)],
     [liquidity |-> BFromInt(3), owed |-> <<>>],
     [liquidity |-> BAdd(BShl(<<1>>, 53), BFromInt(3)), owed |-> BFromInt(5)]}

\* the network's base fee, in wei
BaseFee == 15 * 10^8

\* max_fee_per_gas_gwei of the gas configuration: absent, below and above
\* the base fee
FeeCeilings ==
    {[set |-> FALSE, gwei |-> 0], [set |-> TRUE, gwei |-> 1],
     [set |-> TRUE, gwei |-> 2]}

Percentages == {0, 50, 100}

\* remove_liquidity takes the number as it comes: 150 is above the 0-100 of
\* its docstring
RemovePercentages == Percentages \cup {150}

Fees == {500, 3000}

\* slippage_bps: the default 0.5 percent, and --slippage 100
Slippages == {50, 10000}

\* requested tick ranges: straddling zero, collapsing on rounding, positive,
\* negative with an aligned upper tick
TickRanges == {<<-61, 59>>, <<0, 59>>, <<5, 125>>, <<-1, 0>>}

\* price_to_tick results of a percentage range (lower <= upper)
RangeTicks == {<<-61, 59>>, <<5, 59>>}

PercentRanges == {<<-5, 5>>, <<5, -5>>}

Float1 == [m |-> <<1>>, e |-> 0]

Float2 == [m |-> <<2>>, e |-> 0]

Float5 == [m |-> <<5>>, e |-> 0]

\* human amounts (amount0, amount1): affordable, and beyond the balance
AmountPairs == {<<Float1, Float2>>, <<Float5, Float1>>}

TokenPairs(v) ==
    IF v = "v3" THEN {<<TokenA, TokenB>>, <<TokenB, TokenA>>}
    ELSE {<<TokenA, TokenB>>, <<TokenB, TokenA>>, <<TokenB, ADDRESS_ZERO>>}

NoArgs ==
    [percentage |-> 0, collect_fees |-> FALSE, burn |-> FALSE,
     token0 |-> -1, token1 |-> -1, fee |-> 0, tick_lower |-> 0,
     tick_upper |-> 0, amount0 |-> Float1, amount1 |-> Float1,
     slippage_bps |-> 0, percent_lower |-> 0, percent_upper |-> 0]

NoCall ==
    [op |-> "none", args |-> NoArgs, oracle |-> NoFault,
     pre |-> <<>>, log |-> <<>>, err |-> "none", ret |-> [keys |-> {}]]

InitWallet ==
    [t \in {ADDRESS_ZERO, TokenA, TokenB} |->
        BMulSmall(BPow10(Decimals(t)), 3)]

InitLedger(owner, pos, allow) ==
    [owner |-> owner, liquidity |-> pos.liquidity,
     owed |-> [a0 |-> pos.owed, a1 |-> pos.owed],
     fee |-> 3000,
     wallet |-> InitWallet,
     allowance |-> [t \in {ADDRESS_ZERO, TokenA, TokenB} |-> allow],
     minted |-> <<>>,
     baseFee |-> BaseFee]

Init ==
    /\ variant \in {"v3", "v4"}
    /\ maxFeePerGas \in FeeCeilings
    /\ \E owner \in {Me, Other}, pos \in InitPositions,
          allow \in {<<>>, MAX_UINT128} :
          ledger = InitLedger(owner, pos, allow)
    /\ last = NoCall
    /\ pc = "start"

\* the state after a call that ran to context c
Finish(op, a, o, c) ==
    /\ ledger' = c.ledger
    /\ last' = [op |-> op, args |-> a, oracle |-> o, pre |-> ledger,
                log |-> c.log, err |-> c.err,
                ret |-> IF c.err = "none" THEN c.ret ELSE [keys |-> {}]]
    /\ pc' = "done"
    /\ UNCHANGED <<variant, maxFeePerGas>>

RemoveLiquidity ==
    /\ pc = "start"
    /\ \E p \in RemovePercentages, cf \in BOOLEAN, b \in BOOLEAN, o \in Oracles(3) :
          LET a == [NoArgs EXCEPT !.percentage = p, !.collect_fees = cf,
                                  !.burn = b]
          IN  Finish("remove_liquidity", a, o,
                     remove_liquidity(variant, NewCtx(ledger), a, o))

AddLiquidity ==
    /\ pc = "start"
    /\ \E tk \in TokenPairs(variant), f \in Fees, tr \in TickRanges,
          am \in AmountPairs, sl \in Slippages,
          o \in Oracles(3) \cup {Unparsed} :
          LET a == [NoArgs EXCEPT !.token0 = tk[1], !.token1 = tk[2],
                                  !.fee = f, !.tick_lower = tr[1],
                                  !.tick_upper = tr[2], !.amount0 = am[1],
                                  !.amount1 = am[2], !.slippage_bps = sl]
          IN  Finish("add_liquidity", a, o,
                     IF variant = "v3"
                     THEN V3_add_liquidity(NewCtx(ledger), a, o)
                     ELSE V4_add_liquidity(NewCtx(ledger), a, o))

AddLiquidityRange ==
    /\ pc = "start"
    /\ \E tk \in TokenPairs(variant), pr \in PercentRanges, tr \in RangeTicks,
          am \in AmountPairs, o \in Oracles(3) :
          LET a == [NoArgs EXCEPT !.token0 = tk[1], !.token1 = tk[2],
                                  !.fee = 3000, !.percent_lower = pr[1],
                                  !.percent_upper = pr[2],
                                  !.tick_lower = tr[1], !.tick_upper = tr[2],
                                  !.amount0 = am[1], !.amount1 = am[2],
                                  !.slippage_bps = 50]
          IN  Finish("add_liquidity_range", a, o,
                     IF variant = "v3"
                     THEN V3_add_liquidity_range(NewCtx(ledger), a, o)
                     ELSE V4_add_liquidity_range(NewCtx(ledger), a, o))

MigrateLiquidity ==
    /\ pc = "start"
    /\ variant = "v3"
    /\ \E p \in Percentages, cf \in BOOLEAN, b \in BOOLEAN, tr \in TickRanges,
          o \in Oracles(6) \cup {Unparsed} :
          LET a == [NoArgs EXCEPT !.percentage = p, !.collect_fees = cf,
                                  !.burn = b, !.tick_lower = tr[1],
                                  !.tick_upper = tr[2], !.slippage_bps = 50]
          IN  Finish("migrate_liquidity", a, o,
                     V3_migrate_liquidity(NewCtx(ledger), a, o))

Next ==
    \/ RemoveLiquidity
    \/ AddLiquidity
    \/ AddLiquidityRange
    \/ MigrateLiquidity

Spec == Init /\ [][Next]_vars

(***************************************************************************)
(* A caller that makes one lifecycle call after another on the position    *)
(* it owns.  Every call reads the ledger the preceding calls left, and the *)
(* caller keeps coming back with the call that asks for everything:        *)
(* remove 100%, collect, burn, on a network that lets it through.          *)
(***************************************************************************)
ResumeInit ==
    /\ variant \in {"v3", "v4"}
    /\ maxFeePerGas = [set |-> FALSE, gwei |-> 0]
    /\ ledger = InitLedger(Me, [liquidity |-> BFromInt(3), owed |-> <<>>],
                           MAX_UINT128)
    /\ last = NoCall
    /\ pc = "start"

RemoveAgain ==
    \E p \in Percentages, cf \in BOOLEAN, b \in BOOLEAN, o \in Oracles(3) :
        LET a == [NoArgs EXCEPT !.percentage = p, !.collect_fees = cf,
                                !.burn = b]
        IN  Finish("remove_liquidity", a, o,
                   remove_liquidity(variant, NewCtx(ledger), a, o))

RemoveAllAndBurn ==
    LET a == [NoArgs EXCEPT !.percentage = 100, !.collect_fees = TRUE,
                            !.burn = TRUE]
    IN  Finish("remove_liquidity", a, NoFault,
               remove_liquidity(variant, NewCtx(ledger), a, NoFault))

MigrateAgain ==
    /\ variant = "v3"
    /\ \E p \in Percentages, cf \in BOOLEAN, b \in BOOLEAN :
          LET a == [NoArgs EXCEPT !.percentage = p, !.collect_fees = cf,
                                  !.burn = b, !.tick_lower = -61,
                                  !.tick_upper = 59, !.slippage_bps = 50]
          IN  Finish("migrate_liquidity", a, NoFault,
                     V3_migrate_liquidity(NewCtx(ledger), a, NoFault))

ResumeNext ==
    \/ RemoveAgain
    \/ RemoveAllAndBurn
    \/ MigrateAgain

ResumeSpec == ResumeInit /\ [][ResumeNext]_vars /\ WF_vars(RemoveAllAndBurn)

(***************************************************************************)
(* The arithmetic on its own: one call of a function of the math modules   *)
(* on arguments drawn at the start.  Ticks are ints in sign and magnitude  *)
(* form, wei amounts naturals in limb form.                                 *)
(***************************************************************************)
\* 2^53 + 1, the least natural that is not a float
BeyondFloat == BAdd(BShl(<<1>>, MantissaBits), <<1>>)

MathTicks ==
    {SignedOf(n) : n \in {-887272, -887220, -121, -120, -61, -60, -1, 0, 1, 59,
                          60, 61, 887272}}
    \cup {[neg |-> TRUE, mag |-> BeyondFloat], [neg |-> FALSE, mag |-> BeyondFloat]}

MathSpacings == {1, 10, 60, 200}

\* wei amounts: nothing, dust, and amounts of the size of one 18-decimal
\* token, which is above 2^53
MathWei ==
    {<<>>, <<1>>, BFromInt(200), BPow10(18), BAdd(BPow10(18), BFromInt(100))}

MathBps == {0, 50, 10000}

\* desired amounts: one of the two, neither, both
PlanDesired ==
    {<<Some(Float1), None>>, <<None, Some(Float1)>>, <<None, None>>,
     <<Some(Float1), Some(Float2)>>}

\* current ticks below, on the bounds of, inside and above -60..60
PlanTicks == {-120, -60, 0, 60, 120}

\* the in-range expression: a float, or a zero denominator
PlanQuotes ==
    {[zero_division |-> FALSE, value |-> Float2],
     [zero_division |-> TRUE, value |-> Float0]}

\* the factory of the direct-call protocol may know no pool for the pair
PlanPools(v, ticks) ==
    {[exists |-> x, tick |-> k, in_range |-> q] :
        x \in IF v = "v3" THEN BOOLEAN ELSE {TRUE}, k \in ticks,
        q \in PlanQuotes}

\* percentages in hundredths with the price_to_tick results they give at
\* tick 0: int(log(0.95) / log(1.0001)) = -512, int(log(1.05) / ...) = 487
PlanPercentRanges ==
    {[percent_lower |-> -5, percent_upper |-> 5, ticks |-> <<-512, 487>>],
     [percent_lower |-> 5, percent_upper |-> -5, ticks |-> <<487, -512>>],
     [percent_lower |-> 5, percent_upper |-> 5, ticks |-> <<487, 487>>]}

PlanInputs ==
    UNION {
        {[fn |-> "calculate_optimal_amounts", variant |-> v, token0 |-> tk[1],
          token1 |-> tk[2], tick_lower |-> -60, tick_upper |-> 60,
          amount0_desired |-> d[1], amount1_desired |-> d[2], pool |-> p] :
            tk \in TokenPairs(v), d \in PlanDesired,
            p \in PlanPools(v, PlanTicks)}
        \cup
        {[fn |-> "calculate_optimal_amounts_range", variant |-> v,
          token0 |-> tk[1], token1 |-> tk[2], fee |-> 3000,
          percent_lower |-> r.percent_lower,
          percent_upper |-> r.percent_upper, ticks |-> r.ticks,
          amount0_desired |-> d[1], amount1_desired |-> d[2], pool |-> p] :
            tk \in TokenPairs(v), d \in PlanDesired,
            r \in PlanPercentRanges, p \in PlanPools(v, {0})}
        : v \in {"v3", "v4"}}

\* sqrt_price_x96 of the pool: price 1 (tick 0), half and twice that, and
\* one unit under the upper sqrt price of tick 60
LiqPrices ==
    {Q96, BShl(<<1>>, 95), BShl(<<1>>, 97),
     BSub(IntOfFloat(AsFloat(SqrtPriceAt(60))), <<1>>)}

LiqRanges == {<<-60, 60>>, <<0, 60>>, <<-60, 0>>}

LiqWei == {<<>>, BFromInt(200), BPow10(18)}

LiqInputs ==
    {[fn |-> "calculate_liquidity_from_amounts", sqrt_price_x96 |-> x,
      tick_lower |-> r[1], tick_upper |-> r[2], amount0 |-> a0,
      amount1 |-> a1] :
        x \in LiqPrices, r \in LiqRanges, a0 \in LiqWei, a1 \in LiqWei}

\* pool keys: every pair of the three addresses in either order, a fee tier
\* of the table and one outside it
PoolKeyInputs ==
    {[fn |-> f, token_a |-> a, token_b |-> b, fee |-> fee] :
        f \in {"sort_currencies", "create_pool_key", "PoolKey"},
        a \in {ADDRESS_ZERO, TokenA, TokenB},
        b \in {ADDRESS_ZERO, TokenA, TokenB}, fee \in {3000, 250}}

\* GasManager.getGasParams for the default operation type: the fees in Gwei
\* are floats (None for no ceiling), base_fee is in wei
getGasParams(max_fee_gwei, max_priority_gwei, base_fee) ==
    LET Wei(gwei) == IntOfFloat(FloatMul(gwei, FloatOfInt(BPow10(9))))
        Params(err, max_fee_wei, priority_fee_wei) ==
            [err |-> err, maxFeePerGas |-> max_fee_wei,
             maxPriorityFeePerGas |-> priority_fee_wei,
             gas |-> IntOfFloat(FloatMul(FloatOfInt(BFromInt(500000)),
                                         RoundRatio(<<12>>, <<10>>)))]
        Checked(max_fee_wei, priority_fee_wei) ==
            IF BCmp(max_fee_wei, base_fee) < 0
            THEN [err |-> "GasPriceTooHighError"]
            ELSE Params("none", max_fee_wei, priority_fee_wei)
        Unlimited(priority_fee_wei) ==
            Params("none",
                   IntOfFloat(FloatMul(FloatOfInt(BAdd(base_fee, priority_fee_wei)),
                                       RoundRatio(<<12>>, <<10>>))),
                   priority_fee_wei)
        \* self.maxPriorityFeePerGas or 1.5
        priority_fee_gwei ==
            IF max_priority_gwei.m = <<>> THEN RoundRatio(<<3>>, <<2>>)
            ELSE max_priority_gwei
    IN  IF ~max_fee_gwei.none
        THEN Checked(Wei(max_fee_gwei.value), Wei(priority_fee_gwei))
        ELSE Unlimited(Wei(priority_fee_gwei))

\* ceilings in Gwei: none, 1, 2, 30
GasCeilings == {None, Some(Float1), Some(Float2), Some(FloatOfInt(BFromInt(30)))}

\* priority fees in Gwei: 0 (the default takes its place), 1.5, 2
PriorityFees == {Float0, RoundRatio(<<3>>, <<2>>), Float2}

\* base fees in wei: 0, 0.5, 1.5 and 25 Gwei
BaseFees ==
    {<<>>, BMulSmall(BPow10(8), 5), BMulSmall(BPow10(8), 15),
     BMulSmall(BPow10(9), 25)}

GasInputs ==
    [fn : {"getGasParams"}, maxFeePerGas : GasCeilings,
     maxPriorityFeePerGas : PriorityFees, base_fee : BaseFees]

\* ticks aligned to the spacing, at the ends of the tick range and around 0
RoundTripTicks == {-887220, -600, -60, 0, 60, 600, 887220}

DecimalPairs == {<<18, 6>>, <<6, 18>>, <<18, 18>>}

RoundTripInputs ==
    {x \in [fn : {"tick_round_trip"}, tick : RoundTripTicks,
            decimals : DecimalPairs, spacing : MathSpacings] :
        x.tick % x.spacing = 0}

MathInputs ==
    {[fn |-> "round_tick_to_spacing", tick |-> t, spacing |-> s] :
        t \in MathTicks, s \in MathSpacings}
    \cup LiqInputs
    \cup PoolKeyInputs
    \cup RoundTripInputs
    \cup GasInputs
    \cup {[fn |-> "calculate_slippage_amounts", amount0 |-> a0, amount1 |-> a1,
           slippage_bps |-> b] : a0 \in MathWei, a1 \in MathWei, b \in MathBps}
    \cup PlanInputs

MathInit ==
    /\ maxFeePerGas = [set |-> FALSE, gwei |-> 0]
    /\ ledger = InitLedger(Me, [liquidity |-> <<>>, owed |-> <<>>], <<>>)
    /\ \E x \in MathInputs :
          /\ variant = IF "variant" \in DOMAIN x THEN x.variant ELSE "v3"
          /\ last = [NoCall EXCEPT !.args = x]
    /\ pc = "start"

\* the state after the function returned r
Return(r) ==
    /\ last' = [last EXCEPT !.op = last.args.fn, !.ret = r]
    /\ pc' = "done"
    /\ UNCHANGED <<variant, maxFeePerGas, ledger>>

RoundTickToSpacing ==
    /\ pc = "start"
    /\ last.args.fn = "round_tick_to_spacing"
    /\ Return(round_tick_to_spacing(last.args.tick, last.args.spacing))

CalculateSlippageAmounts ==
    /\ pc = "start"
    /\ last.args.fn = "calculate_slippage_amounts"
    /\ Return(calculate_slippage_amounts(last.args.amount0, last.args.amount1,
                                         last.args.slippage_bps))

CalculateOptimalAmounts ==
    /\ pc = "start"
    /\ last.args.fn = "calculate_optimal_amounts"
    /\ LET a == last.args
       IN  Return(IF variant = "v3"
                  THEN V3_calculate_optimal_amounts(
                           a.token0, a.token1, a.tick_lower, a.tick_upper,
                           a.amount0_desired, a.amount1_desired, a.pool)
                  ELSE V4_calculate_optimal_amounts(
                           a.token0, a.token1, a.tick_lower, a.tick_upper,
                           a.amount0_desired, a.amount1_desired, a.pool))

CalculateOptimalAmountsRange ==
    /\ pc = "start"
    /\ last.args.fn = "calculate_optimal_amounts_range"
    /\ LET a == last.args
       IN  Return(IF variant = "v3"
                  THEN V3_calculate_optimal_amounts_range(
                           a.token0, a.token1, a.fee, a.ticks,
                           a.amount0_desired, a.amount1_desired, a.pool)
                  ELSE V4_calculate_optimal_amounts_range(
                           a.token0, a.token1, a.fee, a.ticks,
                           a.amount0_desired, a.amount1_desired, a.pool))

CalculateLiquidityFromAmounts ==
    /\ pc = "start"
    /\ last.args.fn = "calculate_liquidity_from_amounts"
    /\ LET a == last.args
       IN  Return(calculate_liquidity_from_amounts(
                      a.sqrt_price_x96, a.tick_lower, a.tick_upper,
                      a.amount0, a.amount1))

SortCurrencies ==
    /\ pc = "start"
    /\ last.args.fn = "sort_currencies"
    /\ Return(sort_currencies(last.args.token_a, last.args.token_b))

CreatePoolKey ==
    /\ pc = "start"
    /\ last.args.fn = "create_pool_key"
    /\ Return(create_pool_key(last.args.token_a, last.args.token_b,
                              last.args.fee))

\* PoolKey(currency0=..., currency1=..., fee=..., tick_spacing=...) called
\* directly, as PoolQuery and PositionManager.get_position do
ConstructPoolKey ==
    /\ pc = "start"
    /\ last.args.fn = "PoolKey"
    /\ Return(PoolKey(last.args.token_a, last.args.token_b, last.args.fee,
                      TickSpacing(last.args.fee)))

\* a tick converted to a price and back, then rounded to the spacing
TickRoundTrip ==
    /\ pc = "start"
    /\ last.args.fn = "tick_round_trip"
    /\ LET a == last.args
       IN  Return(round_tick_to_spacing(
                      price_to_tick(tick_to_price(a.tick, a.decimals[1],
                                                  a.decimals[2]),
                                    a.decimals[1], a.decimals[2]),
                      a.spacing))

GetGasParams ==
    /\ pc = "start"
    /\ last.args.fn = "getGasParams"
    /\ Return(getGasParams(last.args.maxFeePerGas,
                           last.args.maxPriorityFeePerGas, last.args.base_fee))

MathNext ==
    \/ GetGasParams
    \/ TickRoundTrip
    \/ SortCurrencies
    \/ CreatePoolKey
    \/ ConstructPoolKey
    \/ CalculateLiquidityFromAmounts
    \/ RoundTickToSpacing
    \/ CalculateSlippageAmounts
    \/ CalculateOptimalAmounts
    \/ CalculateOptimalAmountsRange

MathSpec == MathInit /\ [][MathNext]_vars

(***************************************************************************)
(* Properties of the lifecycle calls.                                       *)
(***************************************************************************)

\* C1: in every migrate_liquidity call the submissions come in the order
\* decrease(old), collect(old), mint(new) with its approvals, burn(old);
\* a burn is submitted only when burn_old is requested and percentage is
\* 100, and never before the mint of the new position.
C1_MigrateOrder ==
    last.op = "migrate_liquidity" =>
        LET rank(k) == CASE k = "decrease" -> 1 [] k = "collect" -> 2
                         [] k = "approve" -> 3 [] k = "mint" -> 3
                         [] k = "burn" -> 4 [] OTHER -> 0
            n == Len(last.log)
        IN  /\ \A i \in 1..n : \A j \in 1..n :
                  i < j => rank(last.log[i].tx.kind) <= rank(last.log[j].tx.kind)
            /\ \A i \in 1..n :
                  last.log[i].tx.kind = "burn" =>
                      /\ last.args.burn /\ last.args.percentage = 100
                      /\ \E j \in 1..(i - 1) : last.log[j].tx.kind = "mint"

\* C2: in remove_liquidity and migrate_liquidity a burn is submitted only
\* when the position's liquidity is 0 and its owed balances are 0, an
\* earlier confirmed step of the call having withdrawn them.
C2_BurnOnlyWhenEmptied ==
    last.op \in {"remove_liquidity", "migrate_liquidity"} =>
        \A i \in 1..Len(last.log) :
            last.log[i].tx.kind = "burn" =>
                /\ last.log[i].posLiquidity = <<>>
                /\ last.log[i].posOwed = [a0 |-> <<>>, a1 |-> <<>>]
                /\ \E j \in 1..(i - 1) :
                      /\ last.log[j].status = "confirmed"
                      /\ \/ last.log[j].tx.kind = "collect"
                         \/ \E k \in 1..Len(last.log[j].tx.actions) :
                               last.log[j].tx.actions[k] = "TAKE_PAIR"

\* C3: remove_liquidity and migrate_liquidity called on a position that the
\* caller does not own submit nothing and end with a position error.
C3_OwnerCheckedFirst ==
    (/\ last.op \in {"remove_liquidity", "migrate_liquidity"}
     /\ last.pre.owner # Me)
    => /\ last.log = <<>>
       /\ last.err = "PositionError: not owned"
       /\ ledger = last.pre

C3_Witness ==
    /\ last.op = "migrate_liquidity"
    /\ last.pre.owner = Other
    /\ last.pre.liquidity # <<>>
    /\ last.args.percentage = 100
    /\ last.err = "PositionError: not owned"

\* C4: an add_liquidity, remove_liquidity or migrate_liquidity call that
\* ends with a validation error (tick range, amounts, ownership, zero
\* liquidity) has submitted nothing and left the ledger as it was.
C4_ValidationBeforeSubmission ==
    (/\ last.op \in {"add_liquidity", "remove_liquidity", "migrate_liquidity"}
     /\ last.err \in {"ValueError", "InsufficientBalanceError", "ConfigError",
                      "PositionError: not owned", "PositionError: no liquidity"})
    => /\ last.log = <<>>
       /\ ledger = last.pre

\* C5: remove_liquidity on an owned position of liquidity L > 0 submits a
\* decrease of exactly L when percentage is 100, leaving liquidity 0 once
\* confirmed; for another percentage p it submits floor(L * p / 100), and
\* raises without submitting when that is 0.
C5_DecreaseAmount ==
    (/\ last.op = "remove_liquidity"
     /\ last.pre.owner = Me
     /\ last.pre.liquidity # <<>>)
    => LET L    == last.pre.liquidity
           p    == last.args.percentage
           want == IF p = 100 THEN L
                   ELSE BDivSmall(BMulSmall(L, p), 100).quot
       IN  IF want = <<>>
           THEN last.log = <<>> /\ last.err = "ValueError"
           ELSE last.log # <<>> =>
                   /\ last.log[1].tx.kind = "decrease"
                   /\ last.log[1].tx.liquidity = want
                   /\ (p = 100 /\ last.log[1].status = "confirmed") =>
                         IF Len(last.log) > 1
                         THEN last.log[2].posLiquidity = <<>>
                         ELSE ledger.liquidity = <<>>

\* C6: remove_liquidity with burn requested and percentage other than 100,
\* on an owned position with liquidity, submits no burn; when it returns,
\* the result has a burn_skipped entry with the reason, and the decrease
\* (and the collect, when collect_fees is set) were confirmed.
C6_BurnSkippedSignal ==
    (/\ last.op = "remove_liquidity"
     /\ last.args.burn /\ last.args.percentage # 100
     /\ last.pre.owner = Me
     /\ last.pre.liquidity # <<>>)
    => /\ \A i \in 1..Len(last.log) : last.log[i].tx.kind # "burn"
       /\ last.err = "none" =>
             /\ "burn_skipped" \in last.ret.keys
             /\ last.ret.burn_skipped # ""
             /\ \E i \in 1..Len(last.log) :
                   /\ last.log[i].tx.kind = "decrease"
                   /\ last.log[i].status = "confirmed"
             /\ last.args.collect_fees =>
                   \E i \in 1..Len(last.log) :
                       /\ last.log[i].tx.kind = "collect"
                       /\ last.log[i].status = "confirmed"

\* C7: with a fee ceiling configured below the current base fee, a
\* lifecycle call of either protocol records no ledger submission, and it
\* ends with the fee-ceiling error unless a validation error came first.
C7_CeilingBeforeSubmission ==
    (/\ last.op # "none"
     /\ maxFeePerGas.set
     /\ maxFeePerGas.gwei * GWEI < last.pre.baseFee)
    => /\ last.log = <<>>
       /\ last.err \in {"GasPriceTooHighError", "ValueError",
                        "InsufficientBalanceError", "ConfigError",
                        "PositionError: not owned",
                        "PositionError: no liquidity"}

\* C8: in add_liquidity and add_liquidity_range of both protocols, the
\* amount a mint carries for each token is the amount the caller supplied
\* for that token, whatever the order the tokens were given in.
C8_AmountsFollowTokens ==
    last.op \in {"add_liquidity", "add_liquidity_range"} =>
        \A i \in 1..Len(last.log) :
            last.log[i].tx.kind = "mint" =>
                LET tx == last.log[i].tx
                    supplied(t) == IF t = last.args.token0
                                   THEN last.args.amount0
                                   ELSE last.args.amount1
                IN  /\ {tx.token0, tx.token1}
                          = {last.args.token0, last.args.token1}
                    /\ tx.amount0 = to_wei(supplied(tx.token0), tx.token0)
                    /\ tx.amount1 = to_wei(supplied(tx.token1), tx.token1)

\* C9: every mint submitted by add_liquidity has tick_lower < tick_upper,
\* both multiples of the fee tier's tick spacing; when the requested ticks
\* round down to lower >= upper the call raises the invalid-range error
\* and submits nothing.
C9_MintRangeValid ==
    last.op = "add_liquidity" =>
        LET s  == TickSpacing(last.args.fee)
            lo == (last.args.tick_lower \div s) * s
            hi == (last.args.tick_upper \div s) * s
        IN  /\ \A i \in 1..Len(last.log) :
                  last.log[i].tx.kind = "mint" =>
                      /\ last.log[i].tx.tick_lower < last.log[i].tx.tick_upper
                      /\ last.log[i].tx.tick_lower % s = 0
                      /\ last.log[i].tx.tick_upper % s = 0
            /\ lo >= hi => last.err = "ValueError" /\ last.log = <<>>

C9_Witness ==
    /\ last.op = "add_liquidity"
    /\ last.args.tick_lower = -61 /\ last.args.fee = 3000
    /\ \E i \in 1..Len(last.log) :
          /\ last.log[i].tx.kind = "mint"
          /\ last.log[i].status = "confirmed"
          /\ last.log[i].tx.tick_lower = -120
          /\ last.log[i].tx.tick_upper = 0

\* C10: on the same position state and inputs, remove_liquidity of the two
\* protocols submits the same sequence of steps, ends alike in success or
\* error, and returns results with the same keys, whichever steps revert.
C10_VariantsAgree ==
    last.op = "remove_liquidity" =>
        LET other == remove_liquidity(IF variant = "v3" THEN "v4" ELSE "v3",
                                      NewCtx(last.pre), last.args, last.oracle)
        IN  /\ [i \in 1..Len(other.log) |-> other.log[i].tx.kind]
                  = [i \in 1..Len(last.log) |-> last.log[i].tx.kind]
            /\ (other.err = "none") = (last.err = "none")
            /\ other.err = "none" => other.ret.keys = last.ret.keys

\* C11: every batched submission carries the fixed action list of its step,
\* with one parameter block per action in the same order: mint is
\* MINT_POSITION, SETTLE_PAIR, plus a final SWEEP exactly when one currency
\* is the native one; decrease and collect are DECREASE_LIQUIDITY, TAKE_PAIR
\* (collect with liquidity 0); burn is BURN_POSITION.
C11_ActionLists ==
    variant = "v4" =>
        \A i \in 1..Len(last.log) :
            LET tx     == last.log[i].tx
                native == tx.token0 = ADDRESS_ZERO \/ tx.token1 = ADDRESS_ZERO
                block  == [a \in {"MINT_POSITION", "SETTLE_PAIR", "SWEEP",
                                  "DECREASE_LIQUIDITY", "TAKE_PAIR",
                                  "BURN_POSITION"} |->
                             CASE a = "MINT_POSITION" -> "mint_params"
                               [] a = "SETTLE_PAIR" -> "settle_params"
                               [] a = "SWEEP" -> "sweep_params"
                               [] a = "DECREASE_LIQUIDITY" -> "decrease_params"
                               [] a = "TAKE_PAIR" -> "take_params"
                               [] OTHER -> "burn_params"]
            IN  /\ tx.kind = "mint" =>
                      tx.actions = IF native
                                   THEN <<"MINT_POSITION", "SETTLE_PAIR", "SWEEP">>
                                   ELSE <<"MINT_POSITION", "SETTLE_PAIR">>
                /\ tx.kind = "decrease" =>
                      tx.actions = <<"DECREASE_LIQUIDITY", "TAKE_PAIR">>
                /\ tx.kind = "collect" =>
                      /\ tx.actions = <<"DECREASE_LIQUIDITY", "TAKE_PAIR">>
                      /\ tx.liquidity = <<>>
                /\ tx.kind = "burn" => tx.actions = <<"BURN_POSITION">>
                /\ tx.kind # "approve" =>
                      /\ Len(tx.params) = Len(tx.actions)
                      /\ \A k \in 1..Len(tx.actions) :
                            tx.params[k] = block[tx.actions[k]]

\* a confirmed batched mint into a pool whose currency0 is the native one
C11_Witness ==
    /\ variant = "v4"
    /\ \E i \in 1..Len(last.log) :
          /\ last.log[i].tx.kind = "mint"
          /\ last.log[i].tx.token0 = ADDRESS_ZERO
          /\ last.log[i].tx.actions[3] = "SWEEP"
          /\ last.log[i].status = "confirmed"

\* C12: a submission that is mined with a reverted status ends the call: the
\* call raises, nothing is submitted after it, and no success result is
\* returned.
C12_RevertRaises ==
    \A i \in 1..Len(last.log) :
        last.log[i].status = "reverted" =>
            /\ last.err # "none"
            /\ i = Len(last.log)

\* C13: within one call no sub-step is submitted twice, whatever the outcome
\* of the submissions (confirmed, reverted, receipt not seen): two
\* submissions of one call are of different kinds, or approve different
\* tokens.
C13_NoResubmission ==
    \A i \in 1..Len(last.log), j \in 1..Len(last.log) :
        (i < j /\ last.log[i].tx.kind = last.log[j].tx.kind) =>
            /\ last.log[i].tx.kind = "approve"
            /\ last.log[i].tx.token0 # last.log[j].tx.token0

\* a call that ends on a submission whose receipt was not seen, after an
\* earlier submission
C13_Witness ==
    /\ Len(last.log) >= 2
    /\ last.log[Len(last.log)].status = "unknown"
    /\ last.err = "TimeExhausted"

\* C14: round_tick_to_spacing returns the greatest multiple of spacing that
\* is <= tick, for ticks of either sign, and returns a multiple of spacing
\* unchanged.
C14_RoundIsFloor ==
    last.op = "round_tick_to_spacing" =>
        LET tick    == last.args.tick
            spacing == last.args.spacing
            r       == last.ret
        IN  /\ BDivSmall(r.mag, spacing).rem = 0
            /\ r.neg = (tick.neg /\ r.mag # <<>>)
            \* r <= tick < r + spacing
            /\ ~tick.neg =>
                  /\ BLeq(r.mag, tick.mag)
                  /\ ~BLeq(BAdd(r.mag, BFromInt(spacing)), tick.mag)
            /\ tick.neg =>
                  /\ BLeq(tick.mag, r.mag)
                  /\ ~BLeq(BAdd(tick.mag, BFromInt(spacing)), r.mag)
            /\ round_tick_to_spacing(r, spacing) = r

\* C15: calculate_slippage_amounts returns floor(a * (10000 - t) / 10000) for
\* each of the two amounts.
C15_SlippageIsFloor ==
    last.op = "calculate_slippage_amounts" =>
        LET Floor(a) ==
                BDivSmall(BMul(a, BFromInt(10000 - last.args.slippage_bps)),
                          10000).quot
        IN  /\ last.ret[1] = Floor(last.args.amount0)
            /\ last.ret[2] = Floor(last.args.amount1)

\* C16: no mint that carries minimum amounts is submitted with a zero
\* minimum for a non-zero desired amount.
C16_NoZeroMinimum ==
    variant = "v3" =>
        \A i \in 1..Len(last.log) :
            last.log[i].tx.kind = "mint" =>
                /\ last.log[i].tx.amount0 # <<>> => last.log[i].tx.amount0_min # <<>>
                /\ last.log[i].tx.amount1 # <<>> => last.log[i].tx.amount1_min # <<>>

C18_PercentRangeRejected ==
    (/\ last.op = "calculate_optimal_amounts_range"
     /\ last.args.percent_lower >= last.args.percent_upper) =>
        last.ret.err # "none"

\* C19: in every call that adds liquidity, an approve is submitted only for
\* a non-native token whose allowance to the position manager is below the
\* amount at that moment; and when the mint is submitted, each non-native
\* token it pulls has an allowance covering its amount, an approve having
\* been submitted before the mint for exactly the tokens whose allowance
\* was short when the call began.
C19_ApproveWhenNeeded ==
    LET log == last.log
        \* allowance of token just before submission i of the call
        AllowanceAt(token, i) ==
            LET set == {j \in 1..(i - 1) :
                           /\ log[j].tx.kind = "approve"
                           /\ log[j].tx.token0 = token
                           /\ log[j].status = "confirmed"}
            IN  IF set = {} THEN last.pre.allowance[token]
                ELSE log[CHOOSE j \in set : \A k \in set : k <= j].tx.amount0
        ApprovedBefore(token, i) ==
            \E j \in 1..(i - 1) :
                log[j].tx.kind = "approve" /\ log[j].tx.token0 = token
        Pulled(token, amount, i) ==
            IF token = ADDRESS_ZERO THEN ~ApprovedBefore(token, i)
            ELSE /\ BLeq(amount, AllowanceAt(token, i))
                 /\ ApprovedBefore(token, i)
                        <=> ~BLeq(amount, last.pre.allowance[token])
    IN  last.op \in {"add_liquidity", "add_liquidity_range",
                     "migrate_liquidity"} =>
            \A i \in 1..Len(log) :
                /\ log[i].tx.kind = "approve" =>
                      /\ log[i].tx.token0 # ADDRESS_ZERO
                      /\ ~BLeq(log[i].tx.amount0,
                               AllowanceAt(log[i].tx.token0, i))
                /\ log[i].tx.kind = "mint" =>
                      /\ Pulled(log[i].tx.token0, log[i].tx.amount0, i)
                      /\ Pulled(log[i].tx.token1, log[i].tx.amount1, i)

\* C19 witness: a mint into a pool of the native currency and a token whose
\* allowance was short: one approve, for the token, then the mint.
C19_Witness ==
    /\ last.op = "add_liquidity"
    /\ Len(last.log) = 2
    /\ last.log[1].tx.kind = "approve"
    /\ last.log[1].tx.token0 = TokenB
    /\ last.log[2].tx.kind = "mint"
    /\ last.log[2].tx.token0 = ADDRESS_ZERO
    /\ last.log[2].status = "confirmed"
    /\ last.pre.allowance[TokenB] = <<>>

\* C20: when the current sqrt price is strictly inside the range, the
\* liquidity calculate_liquidity_from_amounts returns exceeds neither the
\* liquidity of the supplied amount0 nor that of the supplied amount1 (0
\* for an amount of 0); when the price is at or beyond a bound it returns
\* the liquidity of the one token the position holds there.
C20_MinOfPerTokenLiquidities ==
    (last.op = "calculate_liquidity_from_amounts" /\ last.ret.err = "none") =>
        LET a == last.args
            Limited(liquidity0, liquidity1, below, above) ==
                IF ~below /\ ~above
                THEN /\ PyCmp(last.ret, liquidity0) <= 0
                     /\ PyCmp(last.ret, liquidity1) <= 0
                ELSE IF below THEN PyCmp(last.ret, liquidity0) = 0
                ELSE PyCmp(last.ret, liquidity1) = 0
            At(current, lower, upper) ==
                Limited(Liquidity0(a.amount0, current, upper),
                        Liquidity1(a.amount1, current, lower),
                        PyCmp(current, lower) <= 0,
                        PyCmp(current, upper) >= 0)
            Range(lower, upper) ==
                At(ClampedPrice(a.sqrt_price_x96, lower, upper), lower, upper)
        IN  Range(SqrtPriceAt(a.tick_lower), SqrtPriceAt(a.tick_upper))

\* C21: every PoolKey that is constructed, directly or by create_pool_key,
\* and every pair that sort_currencies returns, has currency0 strictly
\* below currency1 in address order.
C21_CurrenciesOrdered ==
    /\ (last.op \in {"create_pool_key", "PoolKey"} /\ last.ret.err = "none")
       => last.ret.currency0 < last.ret.currency1
    /\ last.op = "sort_currencies" => last.ret[1] < last.ret[2]

\* C22: for a spacing-aligned tick t and a decimal pair (d0, d1),
\* round_tick_to_spacing(price_to_tick(tick_to_price(t, d0, d1), d0, d1),
\* spacing) is a multiple of the spacing and differs from t by at most one
\* spacing step.
C22_RoundTripWithinOneStep ==
    last.op = "tick_round_trip" =>
        LET Within(t, v, spacing) ==
                /\ v % spacing = 0
                /\ v - t <= spacing
                /\ t - v <= spacing
        IN  Within(last.args.tick, IntOfSigned(last.ret), last.args.spacing)

\* the conversion lost a tick (log(1.0001 ** 60) / log(1.0001) is just under
\* 60) and the rounding moved the result one whole step below t
C22_Witness ==
    /\ last.op = "tick_round_trip"
    /\ last.args.spacing = 60
    /\ IntOfSigned(last.ret) = last.args.tick - 60

\* C23: the amounts migrate_liquidity passes to the mint of the new position
\* are the amounts the decrease and collect of the same call released from
\* the old position; tokens the caller held before the call stay out of it.
C23_MintsOnlyReleased ==
    last.op = "migrate_liquidity" =>
        \A i \in 1..Len(last.log) :
            last.log[i].tx.kind = "mint" =>
                LET Collects == {j \in 1..(i - 1) :
                                    /\ last.log[j].tx.kind = "collect"
                                    /\ last.log[j].status = "confirmed"}
                    Released == IF Collects = {}
                                THEN [a0 |-> <<>>, a1 |-> <<>>]
                                ELSE last.log[CHOOSE j \in Collects : TRUE].posOwed
                IN  /\ last.log[i].tx.amount0 = Released.a0
                    /\ last.log[i].tx.amount1 = Released.a1

\* C24: a migrate_liquidity call that fails after one of its submissions was
\* confirmed on the ledger gives the caller the outcome of the sub-steps that
\* completed (the remove result with its receipts), not only an error.
C24_PartialOutcomeReported ==
    (/\ last.op = "migrate_liquidity"
     /\ last.err # "none"
     /\ \E i \in 1..Len(last.log) :
           /\ last.log[i].status = "confirmed"
           /\ last.log[i].tx.kind \in {"decrease", "collect"})
    => "remove_result" \in last.ret.keys

\* C25: a migrate_liquidity call with burn_old requested and percentage
\* below 100 does not burn the old position, and the result it returns
\* carries a burn-skipped signal.
C25_BurnSkipReported ==
    (/\ last.op = "migrate_liquidity"
     /\ last.args.burn
     /\ last.args.percentage < 100
     /\ last.err = "none")
    => /\ \A i \in 1..Len(last.log) : last.log[i].tx.kind # "burn"
       /\ \/ "burn_skipped" \in last.ret.keys
          \/ "burn_skipped" \in last.ret.remove_result.keys

\* C26: a position that a remove_liquidity call of 100% left decreased
\* (liquidity 0, still owned, not burned) can be taken further by a later
\* lifecycle call that reads the ledger again: some remove_liquidity or
\* migrate_liquidity call on it, with no fault of the network, still acts on
\* the ledger.  A position on which no call acts is never burned.
C26_DecreasedCanResume ==
    (/\ last.op = "remove_liquidity"
     /\ last.args.percentage = 100
     /\ \E i \in 1..Len(last.log) :
           last.log[i].tx.kind = "decrease" /\ last.log[i].status = "confirmed"
     /\ ledger.liquidity = <<>>
     /\ ledger.owner = Me)
    => \E p \in Percentages, cf \in BOOLEAN, b \in BOOLEAN :
          LET a == [NoArgs EXCEPT !.percentage = p, !.collect_fees = cf,
                                  !.burn = b, !.tick_lower = -61,
                                  !.tick_upper = 59, !.slippage_bps = 50]
          IN  \/ remove_liquidity(variant, NewCtx(ledger), a, NoFault).ledger
                    # ledger
              \/ /\ variant = "v3"
                 /\ V3_migrate_liquidity(NewCtx(ledger), a, NoFault).ledger
                       # ledger

\* C27: when the mint of add_liquidity or migrate_liquidity is confirmed
\* and no token id can be read from its receipt, the call ends with an
\* error instead of returning a result whose token id is absent, and the
\* mint is submitted once.
C27_UnparsedIdIsError ==
    (/\ last.op \in {"add_liquidity", "migrate_liquidity"}
     /\ last.oracle.unparsed
     /\ \E i \in 1..Len(last.log) :
           last.log[i].tx.kind = "mint" /\ last.log[i].status = "confirmed")
    => /\ last.err # "none"
       /\ Cardinality({i \in 1..Len(last.log) :
                          last.log[i].tx.kind = "mint"}) = 1

\* C28: in both variants the mint that add_liquidity submits carries the
\* bounds computed from slippage_bps: the same call made with another
\* slippage_bps on the same ledger submits a mint with different amount
\* bounds.
C28_SlippageInMint ==
    (/\ last.op = "add_liquidity"
     /\ \E i \in 1..Len(last.log) : last.log[i].tx.kind = "mint")
    => \A sl \in Slippages \ {last.args.slippage_bps} :
          LET Mints(log) == {log[i].tx : i \in {j \in 1..Len(log) :
                                                   log[j].tx.kind = "mint"}}
              Again(a) == IF variant = "v3"
                          THEN V3_add_liquidity(NewCtx(last.pre), a, last.oracle)
                          ELSE V4_add_liquidity(NewCtx(last.pre), a, last.oracle)
          IN  Mints(Again([last.args EXCEPT !.slippage_bps = sl]).log)
                 # Mints(last.log)

\* C29: whatever percentage remove_liquidity is called with, the liquidity
\* of a decrease it submits is at least 1 and at most the liquidity the
\* position holds at that moment.
C29_DecreaseWithinLiquidity ==
    last.op = "remove_liquidity" =>
        \A i \in 1..Len(last.log) :
            last.log[i].tx.kind = "decrease" =>
                /\ last.log[i].tx.liquidity # <<>>
                /\ BLeq(last.log[i].tx.liquidity, last.log[i].posLiquidity)

\* C30: whenever getGasParams returns without error, the maxFeePerGas it
\* returns is at least the current base fee and at least the
\* maxPriorityFeePerGas it returns.
C30_FeesWellFormed ==
    (last.op = "getGasParams" /\ last.ret.err = "none")
    => /\ BLeq(last.args.base_fee, last.ret.maxFeePerGas)
       /\ BLeq(last.ret.maxPriorityFeePerGas, last.ret.maxFeePerGas)

====
